---- MODULE Spec2Model ----
(***************************************************************************)
(* World Info Locks: preset resolution, lock precedence and delta          *)
(* activation.  The host (SillyTavern) is the environment: it owns the     *)
(* live book selection, the chat metadata and the identity of the current  *)
(* character / group / chat.                                                *)
(***************************************************************************)
EXTENDS Integers, Sequences, FiniteSets, TLC

\* JavaScript null, undefined and '' are all falsy, and the code tests lock
\* values, names and ids by truthiness (`x || null`, `if (!x)`), so one value
\* stands for "absent".
NULL == ""

-----------------------------------------------------------------------------
(* Bounds and universes                                                    *)

MaxPresets == 2      \* cap on the registry length (createPreset guard)
MaxOps == 1          \* cap on the number of user / host stimuli in a run
MaxPending == 1      \* cap on the number of armed setTimeout callbacks
MaxBookEvents == 2   \* cap on the number of book-list changes in a run
MaxCalls == 2        \* cap on the number of activatePreset calls started step by step

maxAttempts == 10    \* checkAndApplyLocks: const maxAttempts = 10
CACHE_DURATION_MS == 100   \* const CACHE_DURATION_MS = 100
MaxTime == 200       \* cap on Date.now() where time passes

Books == {"b1", "b2", "b3"}
PresetNames == {"A", "a", "B"}
Chars == {"c1", "c2"}
Groups == {"g1"}
Chats == {"ch1", "ch2", "ch3"}
systemUserName == "SillyTavern System"

\* Engine configurations the host can be in (snapshotWorldInfoSettings values).
EngineConfigs == {"s1", "s2"}

\* What the user can type as a preset name in /wipreset.
TypedNames == {NULL, "A", "a", "B", "b", "Z"}

LockVals == PresetNames \cup {NULL}

\* String.prototype.toLowerCase on the names of the universe.
toLowerCase(s) ==
    CASE s = "A" -> "a"
      [] s = "B" -> "b"
      [] s = "Z" -> "z"
      [] OTHER -> s

\* String(raw).trim().normalize('NFC') on the names of the universe.
NormalizeName(s) ==
    CASE s = "c1 " -> "c1"
      [] s = " c2" -> "c2"
      [] OTHER -> s

-----------------------------------------------------------------------------
(* State                                                                   *)

VARIABLES
    settings,        \* the Settings singleton (extension_settings.worldInfoPresets)
    chat_metadata,   \* host: worldInfoPresetLock of every chat, keyed by chat file
    world_info,      \* host: world_info.globalSelect, the live book set
    engine,          \* host: getWorldInfoSettings(), the engine configuration
    host,            \* host: selected_group, name2, current chat_metadata identity
    cachedContext,   \* the context cache (NULL when cleared or expired)
    pendingChecks,   \* armed setTimeout(() => checkAndApplyLocks()) callbacks
    checkPc,         \* checkAndApplyLocks: "idle" or "waiting" (in its 100ms sleep)
    attempts,        \* checkAndApplyLocks: its local attempts counter
    ops,             \* number of user / host stimuli handled so far
    log,             \* what the last handler did (requests, prompts, toasts)
    pre,             \* the state the last handler started from
    bookNames,       \* book-rename observer: the book names it saw last
    lastRenameCheck, \* book-rename observer: 0 = never ran, 1 = ran before
    calls,           \* activatePreset calls suspended at an await, oldest first
    dialogs,         \* book-rename observer: callbacks suspended at their popup
    cacheTimestamp,  \* the context cache: Date.now() when it was filled, 0 when cleared
    now              \* host: Date.now(), in milliseconds since construction

vars == <<settings, chat_metadata, world_info, engine, host, cachedContext,
          pendingChecks, checkPc, attempts, ops, log, pre,
          bookNames, lastRenameCheck, calls, dialogs, cacheTimestamp, now>>

\* worldInfoSettings is NULL (null), "{}" (an object without keys) or one of
\* EngineConfigs (a captured engine configuration).
PresetWith(name, worldList, worldInfoSettings) ==
    [name |-> name, worldList |-> worldList, worldInfoSettings |-> worldInfoSettings]

\* new Preset() with its name and worldList assigned: worldInfoSettings = null
Preset(name, worldList) == PresetWith(name, worldList, NULL)

\* `preset` being null / undefined: preset?.name is undefined and
\* preset?.worldList || [] is empty.
NoPreset == Preset(NULL, {})

-----------------------------------------------------------------------------
(* Registry lookups                                                        *)

Min(S) == CHOOSE x \in S : \A y \in S : x <= y

\* Array.prototype.find(p => p.name === name): index of the first match, 0 if none.
FindByName(list, name) ==
    LET I == {i \in 1..Len(list) : list[i].name = name}
    IN IF I = {} THEN 0 ELSE Min(I)

\* find(it => it.name.toLowerCase() == name.toLowerCase())
FindIgnoreCase(list, name) ==
    LET I == {i \in 1..Len(list) : toLowerCase(list[i].name) = toLowerCase(name)}
    IN IF I = {} THEN 0 ELSE Min(I)

PresetAt(list, i) == IF i = 0 THEN NoPreset ELSE list[i]

\* Settings.preset getter: presetList.find(it => it.name == this.presetName)
SelectedIndex(s) == FindByName(s.presetList, s.presetName)

\* Array.prototype.splice(i, 1) with i counted from 1; splice(-1, 1), which
\* indexOf(undefined) produces, removes the last element.
RemoveAt(list, i) ==
    [k \in 1..(Len(list) - 1) |-> IF k < i THEN list[k] ELSE list[k + 1]]

SpliceIndexOf(list, i) ==
    IF Len(list) = 0 THEN list
    ELSE IF i = 0 THEN RemoveAt(list, Len(list))
    ELSE RemoveAt(list, i)

-----------------------------------------------------------------------------
(* Context Resolver                                                        *)

getCharacterNameForSettings(h) ==
    IF h.selected_group # NULL THEN NULL
    ELSE IF h.name2 = NULL \/ h.name2 = systemUserName
         THEN (IF h.character_name = NULL THEN NULL
               ELSE NormalizeName(h.character_name))
         ELSE NormalizeName(h.name2)

\* Mutant: the character name is resolved in group chats too.
ComputeContext_M(h) ==
    LET isGroupChat == h.selected_group # NULL
    IN [characterName |-> getCharacterNameForSettings([h EXCEPT !.selected_group = NULL]),
        chatId |-> IF isGroupChat /\ h.group_chat_id # NULL
                   THEN h.group_chat_id ELSE h.file_name,
        isGroupChat |-> isGroupChat,
        groupId |-> h.selected_group]

ComputeContext(h) ==
    LET isGroupChat == h.selected_group # NULL
    IN [characterName |-> IF isGroupChat THEN NULL ELSE getCharacterNameForSettings(h),
        chatId |-> IF isGroupChat /\ h.group_chat_id # NULL
                   THEN h.group_chat_id ELSE h.file_name,
        isGroupChat |-> isGroupChat,
        groupId |-> h.selected_group]

\* cachedContext = null
NoCache == [cleared |-> TRUE]

\* clearContextCache leaves cacheTimestamp = 0; isCacheValid:
\* cachedContext && (Date.now() - cacheTimestamp) < CACHE_DURATION_MS
isCacheValid == cachedContext # NoCache /\ now - cacheTimestamp < CACHE_DURATION_MS

\* getCurrentContext: the cached context while the cache is valid, else a
\* recomputation from host state (which refills the cache).
getCurrentContext ==
    IF isCacheValid THEN cachedContext ELSE ComputeContext(host)

-----------------------------------------------------------------------------
(* Lock Store.  W is the world the handler works on:                       *)
(* [settings, chat_metadata, world_info]; the current chat's metadata is   *)
(* chat_metadata[host.file_name].                                          *)

World == [settings |-> settings, chat_metadata |-> chat_metadata,
          world_info |-> world_info, engine |-> engine]

getChatLock(W) == W.chat_metadata[host.file_name]

setChatLock(W, presetName) ==
    [W EXCEPT !.chat_metadata[host.file_name] = presetName]

getCharacterLock(W, characterName) ==
    IF characterName = NULL THEN NULL ELSE W.settings.characterLocks[characterName]

setCharacterLock(W, characterName, presetName) ==
    IF characterName = NULL THEN W
    ELSE [W EXCEPT !.settings.characterLocks[characterName] = presetName]

getGroupLock(W, groupId) ==
    IF groupId = NULL THEN NULL ELSE W.settings.groupLocks[groupId]

setGroupLock(W, groupId, presetName) ==
    IF groupId = NULL THEN W
    ELSE [W EXCEPT !.settings.groupLocks[groupId] = presetName]

-----------------------------------------------------------------------------
(* Lock Resolver                                                           *)

\* JavaScript a || b on lock values
Or(a, b) == IF a # NULL THEN a ELSE b

\* Mutant: the precedence toggle is ignored (character / group lock first).
getLockForContext_M(W, context) ==
    LET chatLock == IF W.settings.enableChatLocks THEN getChatLock(W) ELSE NULL
        contextLock ==
            IF context.isGroupChat
            THEN (IF W.settings.enableGroupLocks
                  THEN getGroupLock(W, context.groupId) ELSE NULL)
            ELSE (IF W.settings.enableCharacterLocks
                  THEN getCharacterLock(W, context.characterName) ELSE NULL)
    IN Or(contextLock, chatLock)

getLockForContext(W, context) ==
    LET chatLock == IF W.settings.enableChatLocks THEN getChatLock(W) ELSE NULL
        contextLock ==
            IF context.isGroupChat
            THEN (IF W.settings.enableGroupLocks
                  THEN getGroupLock(W, context.groupId) ELSE NULL)
            ELSE (IF W.settings.enableCharacterLocks
                  THEN getCharacterLock(W, context.characterName) ELSE NULL)
    IN IF W.settings.preferChatOverCharacterLocks
       THEN Or(chatLock, contextLock)
       ELSE Or(contextLock, chatLock)

\* Mutant: the enable flags are not consulted.
hasAnyLocks_M(W, context) ==
    IF context.isGroupChat
    THEN getChatLock(W) # NULL \/ getGroupLock(W, context.groupId) # NULL
    ELSE getChatLock(W) # NULL \/ getCharacterLock(W, context.characterName) # NULL

hasAnyLocks(W, context) ==
    LET chatLock == IF W.settings.enableChatLocks THEN getChatLock(W) ELSE NULL
    IN IF context.isGroupChat
       THEN LET groupLock == IF W.settings.enableGroupLocks
                             THEN getGroupLock(W, context.groupId) ELSE NULL
            IN chatLock # NULL \/ groupLock # NULL
       ELSE LET characterLock == IF W.settings.enableCharacterLocks
                                 THEN getCharacterLock(W, context.characterName)
                                 ELSE NULL
            IN chatLock # NULL \/ characterLock # NULL

getEffectivePreset(W, context) ==
    LET lock == getLockForContext(W, context)
    IN IF lock # NULL
       THEN PresetAt(W.settings.presetList, FindByName(W.settings.presetList, lock))
       ELSE IF W.settings.presetName # NULL
       THEN PresetAt(W.settings.presetList, SelectedIndex(W.settings))
       ELSE IF W.settings.globalDefaultPreset # NULL
       THEN PresetAt(W.settings.presetList,
                     FindByName(W.settings.presetList, W.settings.globalDefaultPreset))
       ELSE NoPreset

-----------------------------------------------------------------------------
(* Lock-Conflict Negotiator                                                *)

\* Mutant: the chat lock is written whether or not one was set.
updateLocksForContext_M(W, context, presetName) ==
    LET W1 == setChatLock(W, presetName)
    IN IF context.isGroupChat
       THEN (IF getGroupLock(W1, context.groupId) # NULL
             THEN setGroupLock(W1, context.groupId, presetName) ELSE W1)
       ELSE (IF getCharacterLock(W1, context.characterName) # NULL
             THEN setCharacterLock(W1, context.characterName, presetName) ELSE W1)

updateLocksForContext(W, context, presetName) ==
    LET W1 == IF getChatLock(W) # NULL THEN setChatLock(W, presetName) ELSE W
    IN IF context.isGroupChat
       THEN (IF getGroupLock(W1, context.groupId) # NULL
             THEN setGroupLock(W1, context.groupId, presetName) ELSE W1)
       ELSE (IF getCharacterLock(W1, context.characterName) # NULL
             THEN setCharacterLock(W1, context.characterName, presetName) ELSE W1)

-----------------------------------------------------------------------------
(* Activation Engine                                                       *)

\* Mutant: skipLockCheck is not consulted.
PromptShown_M(W, context, preset, skipLockCheck) ==
    /\ hasAnyLocks(W, context)
    /\ getLockForContext(W, context) # NULL
    /\ preset.name # getLockForContext(W, context)

\* The conflict prompt is shown iff the lock check is not skipped, a lock is
\* active and it differs from the target's name.
PromptShown(W, context, preset, skipLockCheck) ==
    /\ ~skipLockCheck
    /\ hasAnyLocks(W, context)
    /\ getLockForContext(W, context) # NULL
    /\ preset.name # getLockForContext(W, context)

\* Mutant: every active book is unloaded (the superseded brute-force clear).
booksToUnload_M(W, preset) == W.world_info

booksToUnload(W, preset) == W.world_info \ preset.worldList
\* Mutant: every book of the target is loaded again.
booksToLoad_M(W, preset) == preset.worldList

booksToLoad(W, preset) == preset.worldList \ W.world_info

\* Mutant: the load loop runs before the unload loop.
NextRequest_M(toUnload, toLoad) ==
    IF toLoad # {} THEN [kind |-> "load", book |-> CHOOSE b \in toLoad : TRUE]
    ELSE [kind |-> "unload", book |-> CHOOSE b \in toUnload : TRUE]

\* The request a call issues next when toUnload and toLoad are the books it
\* still has to unload and to load: the `for` loop over booksToUnload comes
\* first, each executeSlashCommands awaited; then the loop over booksToLoad.
NextRequest(toUnload, toLoad) ==
    IF toUnload # {} THEN [kind |-> "unload", book |-> CHOOSE b \in toUnload : TRUE]
    ELSE [kind |-> "load", book |-> CHOOSE b \in toLoad : TRUE]

\* The two loops run request by request on the live set `live`.  A request
\* for a book of `failing` has no effect; with "throws" in `failing` it is
\* executeSlashCommands that rejects, and since activatePreset has no
\* try/catch around it the call ends there: raised, the later requests never
\* issued.  unload and load are the requests that were issued.
RECURSIVE RunRequests(_, _, _, _)
RunRequests(live, toUnload, toLoad, failing) ==
    IF toUnload = {} /\ toLoad = {}
    THEN [live |-> live, raised |-> FALSE, unload |-> {}, load |-> {}]
    ELSE LET q == NextRequest(toUnload, toLoad)
             fails == q.book \in failing
             unloading == q.kind = "unload"
             live1 == IF fails THEN live
                      ELSE IF unloading THEN live \ {q.book} ELSE live \cup {q.book}
             rest == IF fails /\ "throws" \in failing
                     THEN [live |-> live, raised |-> TRUE, unload |-> {}, load |-> {}]
                     ELSE RunRequests(live1,
                                      IF unloading THEN toUnload \ {q.book} ELSE toUnload,
                                      IF unloading THEN toLoad ELSE toLoad \ {q.book},
                                      failing)
         IN [rest EXCEPT !.unload = IF unloading THEN @ \cup {q.book} ELSE @,
                         !.load = IF unloading THEN @ ELSE @ \cup {q.book}]

\* executeSlashCommands(`/world state=off silent=true ${book}`) for every book
\* to unload, then `/world silent=true ${book}` for every book to load; a
\* request for a book of `failing` has no effect on the live set.
ApplyBookRequests(live, toUnload, toLoad, failing) ==
    (live \ (toUnload \ failing)) \cup (toLoad \ failing)

\* applyWorldInfoEngineSettings(opts) on the engine configuration `current`:
\* every key of opts is written and verified.  With "patchPartial" in
\* `failing` some keys fail verification ({success: false}); with
\* "patchThrows" the collaborator throws part-way.  "mixed" is a configuration
\* in which only some keys of opts were written.
applyWorldInfoEngineSettings(current, opts, failing) ==
    LET fails == failing \cap {"patchPartial", "patchThrows"} # {}
    IN IF opts = "{}" THEN [engine |-> current, success |-> TRUE, threw |-> FALSE]
       ELSE IF fails
       THEN [engine |-> IF opts = current THEN current ELSE "mixed",
             success |-> FALSE, threw |-> "patchThrows" \in failing]
       ELSE [engine |-> opts, success |-> TRUE, threw |-> FALSE]

\* Mutant: a preset without settings gets the configuration in force.
EnginePatch_M(W, preset, failing) ==
    applyWorldInfoEngineSettings(W.engine, W.engine, failing) @@ [applied |-> TRUE]

\* if (preset?.worldInfoSettings) { try { await applyWorldInfoEngineSettings(...) }
\* catch { ... } }: the patch is applied iff the preset carries settings.
EnginePatch(W, preset, failing) ==
    IF preset.worldInfoSettings # NULL
    THEN applyWorldInfoEngineSettings(W.engine, preset.worldInfoSettings, failing)
         @@ [applied |-> TRUE]
    ELSE [engine |-> W.engine, success |-> TRUE, threw |-> FALSE, applied |-> FALSE]

\* The call ended before it reached the engine-settings patch.
NoPatch(W) == [engine |-> W.engine, success |-> TRUE, threw |-> FALSE, applied |-> FALSE]

\* The two request loops of one call: what they leave of the live set, the
\* requests they issued and whether executeSlashCommands rejected.
BookRequests(live, toUnload, toLoad, failing) ==
    IF "throws" \in failing THEN RunRequests(live, toUnload, toLoad, failing)
    ELSE [live |-> ApplyBookRequests(live, toUnload, toLoad, failing),
          raised |-> FALSE, unload |-> toUnload, load |-> toLoad]

\* Mutant: a failed engine-settings patch ends the call before the commit.
UpdateInternalState_M(W, preset, patch) ==
    IF patch.success
    THEN [W EXCEPT !.engine = patch.engine, !.settings.presetName = preset.name]
    ELSE [W EXCEPT !.engine = patch.engine]

\* After the patch, whatever its outcome (the try/catch swallows a throw):
\* settings.presetName = preset?.name ?? ''
UpdateInternalState(W, preset, patch) ==
    [W EXCEPT !.engine = patch.engine, !.settings.presetName = preset.name]

\* Mutant: a rejected prompt aborts the activation.
\* Whether updateLocksForContext called setGroupLock / setCharacterLock, which
\* end in saveSettingsDebounced() (setChatLock requests saveMetadataDebounced).
settersSaved(W, context) ==
    IF context.isGroupChat THEN getGroupLock(W, context.groupId) # NULL
    ELSE getCharacterLock(W, context.characterName) # NULL

activatePreset_M(W, context, preset, skipLockCheck, shouldUpdate, failing) ==
    LET prompted == PromptShown(W, context, preset, skipLockCheck)
        W1 == IF prompted /\ shouldUpdate
              THEN updateLocksForContext(W, context, preset.name) ELSE W
        toUnload == booksToUnload(W1, preset)
        toLoad == booksToLoad(W1, preset)
        run == BookRequests(W1.world_info, toUnload, toLoad, failing)
        patch == IF run.raised THEN NoPatch(W1) ELSE EnginePatch(W1, preset, failing)
        W2 == IF run.raised THEN [W1 EXCEPT !.world_info = run.live]
              ELSE UpdateInternalState([W1 EXCEPT !.world_info = run.live], preset, patch)
    IN IF prompted /\ ~shouldUpdate
       THEN [W |-> W, prompted |-> prompted, unload |-> {}, load |-> {},
             patch |-> [patch EXCEPT !.applied = FALSE], raised |-> FALSE,
             saved |-> FALSE]
       ELSE [W |-> W2, prompted |-> prompted, unload |-> run.unload, load |-> run.load,
             patch |-> patch, raised |-> run.raised,
             saved |-> (prompted /\ shouldUpdate /\ settersSaved(W, context))
                           \/ ~run.raised]

\* The superseded activatePreset (src/index.js): the same conflict prompt, then
\* `/world silent=true {{newline}}` (no name: every active book is unset),
\* settings.presetName = preset?.name ?? '', and, if a preset was given,
\* `/world silent=true ${world}` for every book of
\* settings.presetList.find(it => it.name == settings.presetName).worldList.
\* A preset that the registry does not hold makes that find() undefined and
\* the call end in a TypeError.
activatePresetBruteForce(W, context, preset, skipLockCheck, shouldUpdate, failing) ==
    LET prompted == PromptShown(W, context, preset, skipLockCheck)
        W1 == IF prompted /\ shouldUpdate
              THEN updateLocksForContext(W, context, preset.name) ELSE W
        W2 == [W1 EXCEPT !.world_info = {}, !.settings.presetName = preset.name]
        i == FindByName(W2.settings.presetList, W2.settings.presetName)
        found == preset = NoPreset \/ i # 0
        worldList == IF preset = NoPreset THEN {}
                     ELSE PresetAt(W2.settings.presetList, i).worldList
        run == BookRequests({}, {}, worldList, failing)
    IN [W |-> [W2 EXCEPT !.world_info = run.live], prompted |-> prompted,
        unload |-> W1.world_info, load |-> run.load,
        raised |-> run.raised \/ ~found]

\* activatePreset(preset, skipLockCheck): the world after the call, and what
\* it did.  shouldUpdate is the user's answer to the conflict prompt.
activatePreset(W, context, preset, skipLockCheck, shouldUpdate, failing) ==
    LET prompted == PromptShown(W, context, preset, skipLockCheck)
        W1 == IF prompted /\ shouldUpdate
              THEN updateLocksForContext(W, context, preset.name) ELSE W
        toUnload == booksToUnload(W1, preset)
        toLoad == booksToLoad(W1, preset)
        run == BookRequests(W1.world_info, toUnload, toLoad, failing)
        patch == IF run.raised THEN NoPatch(W1) ELSE EnginePatch(W1, preset, failing)
        W2 == IF run.raised THEN [W1 EXCEPT !.world_info = run.live]
              ELSE UpdateInternalState([W1 EXCEPT !.world_info = run.live], preset, patch)
    IN [W |-> W2, prompted |-> prompted, unload |-> run.unload, load |-> run.load,
        patch |-> patch, raised |-> run.raised,
        saved |-> (prompted /\ shouldUpdate /\ settersSaved(W, context)) \/ ~run.raised]

-----------------------------------------------------------------------------
(* What a handler did: the activatePreset call it made (if any), the       *)
(* toasts it raised.                                                       *)

NoAct == [activated |-> FALSE, target |-> NULL, targetBooks |-> {}, skip |-> FALSE,
          prompted |-> FALSE, answer |-> FALSE, unload |-> {}, load |-> {},
          failing |-> {}, patched |-> FALSE, patchFailed |-> FALSE, raised |-> FALSE,
          saved |-> FALSE]

ActLog(r, preset, skipLockCheck, shouldUpdate, failing) ==
    [activated |-> TRUE, target |-> preset.name, targetBooks |-> preset.worldList,
     skip |-> skipLockCheck, prompted |-> r.prompted,
     answer |-> r.prompted /\ shouldUpdate, unload |-> r.unload, load |-> r.load,
     failing |-> failing \cap (r.unload \cup r.load),
     patched |-> r.patch.applied, patchFailed |-> r.patch.applied /\ ~r.patch.success,
     raised |-> r.raised, saved |-> r.saved]

Log(op, arg, act, warned, threw) ==
    [op |-> op, arg |-> arg, act |-> act, warned |-> warned, threw |-> threw]

Snapshot ==
    [settings |-> settings, chat_metadata |-> chat_metadata,
     world_info |-> world_info, engine |-> engine, host |-> host,
     context |-> getCurrentContext, now |-> now]

\* The handler's writes.  `resolved` tells whether it called getCurrentContext
\* (which refills the cache).
Finish(W, l, resolved) ==
    /\ settings' = W.settings
    /\ chat_metadata' = W.chat_metadata
    /\ world_info' = W.world_info
    /\ engine' = W.engine
    /\ log' = l
    /\ pre' = Snapshot
    /\ cachedContext' = IF resolved THEN getCurrentContext ELSE cachedContext
    /\ cacheTimestamp' = IF resolved /\ ~isCacheValid THEN now ELSE cacheTimestamp

\* A user or host stimulus (bounded by MaxOps) outside the book-rename
\* observer, with no activatePreset call left suspended.
Stimulus ==
    /\ ops < MaxOps
    /\ ops' = ops + 1
    /\ UNCHANGED <<bookNames, lastRenameCheck, dialogs, calls, now>>

\* Result of a handler that only calls activatePreset(preset, skip).
Activating(op, arg, preset, skipLockCheck, shouldUpdate, failing) ==
    LET r == activatePreset(World, getCurrentContext, preset, skipLockCheck,
                            shouldUpdate, failing)
    IN Finish(r.W, Log(op, arg, ActLog(r, preset, skipLockCheck, shouldUpdate, failing),
                       FALSE, FALSE), TRUE)

\* Mutant: an unknown name falls through to deactivation.
activatePresetByName_M(op, name, shouldUpdate, failing) ==
    LET i == FindIgnoreCase(settings.presetList, name)
    IN Activating(op, name, PresetAt(settings.presetList, i), FALSE, shouldUpdate,
                  failing)

\* activatePresetByName(name)
activatePresetByName(op, name, shouldUpdate, failing) ==
    LET i == FindIgnoreCase(settings.presetList, name)
    IN IF i = 0
       THEN Finish(World, Log(op, name, NoAct, TRUE, FALSE), FALSE)
       ELSE Activating(op, name, settings.presetList[i], FALSE, shouldUpdate, failing)

-----------------------------------------------------------------------------
(* activatePreset step by step: the call runs to its next await (the       *)
(* conflict prompt, or one /world request), where other handlers, and other *)
(* activatePreset calls, can run.  There is no guard against re-entry.     *)

\* A suspended call: at the "prompt", or at "books" waiting for the request
\* it issued last; unload and load are the books whose requests have not
\* completed, issued the requests issued so far, context the context that
\* was current when the call reached this await.
SuspendedCall(preset, skipLockCheck, pc, toUnload, toLoad) ==
    [preset |-> preset, skip |-> skipLockCheck, pc |-> pc,
     unload |-> toUnload, load |-> toLoad, context |-> getCurrentContext,
     issued |-> IF pc = "books" THEN <<NextRequest(toUnload, toLoad)>> ELSE <<>>]

\* The presets requested so far in this run, and whether one of the calls
\* was started while another was suspended.
NoRequests == [requested |-> <<>>, overlapped |-> FALSE]
Requests ==
    IF log.op = "activate"
    THEN [requested |-> log.arg.requested, overlapped |-> log.arg.overlapped]
    ELSE NoRequests

\* The rest of the call from the delta computation on, in world W: with an
\* empty delta it runs to its end (the engine-settings patch, then
\* settings.presetName = preset?.name ?? ''),
\* otherwise it issues its first request and is suspended.  `others` are the
\* other suspended calls.
ComputeDelta(W, preset, skipLockCheck, others, arg) ==
    LET toUnload == booksToUnload(W, preset)
        toLoad == booksToLoad(W, preset)
        done == toUnload = {} /\ toLoad = {}
        W2 == IF done
              THEN [W EXCEPT !.engine = EnginePatch(W, preset, {}).engine,
                             !.settings.presetName = preset.name]
              ELSE W
    IN /\ Finish(W2, Log("activate", arg, NoAct, FALSE, FALSE), TRUE)
       /\ calls' = IF done THEN others
                   ELSE Append(others, SuspendedCall(preset, skipLockCheck, "books",
                                                     toUnload, toLoad))

\* activatePreset(preset, skipLockCheck) is called and runs to its first await.
ActivateStart(preset, skipLockCheck) ==
    /\ ops < MaxCalls
    /\ ops' = ops + 1
    /\ preset \in {PresetAt(settings.presetList, i) : i \in 0..Len(settings.presetList)}
    /\ LET arg == [requested |-> Append(Requests.requested, preset),
                   overlapped |-> Requests.overlapped \/ calls # <<>>]
       IN IF PromptShown(World, getCurrentContext, preset, skipLockCheck)
          THEN /\ Finish(World, Log("activate", arg, NoAct, FALSE, FALSE), TRUE)
               /\ calls' = Append(calls, SuspendedCall(preset, skipLockCheck,
                                                        "prompt", {}, {}))
          ELSE ComputeDelta(World, preset, skipLockCheck, calls, arg)
    /\ UNCHANGED <<host, pendingChecks, checkPc, attempts, bookNames, lastRenameCheck, dialogs,
            now>>

\* The user answers the conflict prompt of the i-th suspended call.
PromptAnswered(i, shouldUpdate) ==
    /\ i \in 1..Len(calls)
    /\ calls[i].pc = "prompt"
    /\ LET c == calls[i]
           W1 == IF shouldUpdate
                 THEN updateLocksForContext(World, getCurrentContext, c.preset.name)
                 ELSE World
       IN ComputeDelta(W1, c.preset, c.skip, RemoveAt(calls, i),
                       [answered |-> c.context, accepted |-> shouldUpdate] @@ Requests)
    /\ UNCHANGED <<host, pendingChecks, checkPc, attempts, ops, bookNames,
                   lastRenameCheck, dialogs, now>>

\* The /world request the i-th suspended call waits for completes; the call
\* issues its next request, or runs to its end (engine-settings patch included).
BookRequestDone(i) ==
    /\ i \in 1..Len(calls)
    /\ calls[i].pc = "books"
    /\ LET c == calls[i]
           request == c.issued[Len(c.issued)]
           unloading == request.kind = "unload"
           book == request.book
           live == IF unloading THEN world_info \ {book} ELSE world_info \cup {book}
           left == [c EXCEPT !.unload = IF unloading THEN @ \ {book} ELSE @,
                             !.load = IF unloading THEN @ ELSE @ \ {book}]
           done == left.unload = {} /\ left.load = {}
           rest == IF done THEN left
                   ELSE [left EXCEPT !.issued =
                             Append(@, NextRequest(left.unload, left.load))]
           W == [World EXCEPT !.world_info = live,
                              !.engine = IF done THEN EnginePatch(World, c.preset, {}).engine
                                         ELSE @,
                              !.settings.presetName = IF done THEN c.preset.name ELSE @]
       IN /\ Finish(W, Log("activate", Requests, NoAct, FALSE, FALSE), FALSE)
          /\ calls' = IF done THEN RemoveAt(calls, i)
                      ELSE [calls EXCEPT ![i] = rest]
    /\ UNCHANGED <<host, pendingChecks, checkPc, attempts, ops, bookNames,
                   lastRenameCheck, dialogs, now>>

-----------------------------------------------------------------------------
(* User operations                                                         *)

RegistryNames(s) == {s.presetList[i].name : i \in 1..Len(s.presetList)}

\* presetSelect 'change' handler
PresetSelectChange(value, shouldUpdate, failing) ==
    /\ Stimulus
    /\ value \in RegistryNames(settings) \cup {NULL}
    /\ IF value = NULL
       THEN LET d == FindByName(settings.presetList, settings.globalDefaultPreset)
            IN IF settings.globalDefaultPreset # NULL /\ d # 0
               THEN Activating("select", value, settings.presetList[d], FALSE,
                               shouldUpdate, failing)
               ELSE Activating("select", value, NoPreset, FALSE, shouldUpdate, failing)
       ELSE activatePresetByName("select", value, shouldUpdate, failing)
    /\ UNCHANGED <<host, pendingChecks, checkPc, attempts>>

\* /wipreset [name]
SlashWipreset(value, shouldUpdate, failing) ==
    /\ Stimulus
    /\ activatePresetByName("wipreset", value, shouldUpdate, failing)
    /\ UNCHANGED <<host, pendingChecks, checkPc, attempts>>

\* btnRestore: activatePreset(settings.preset, true)
BtnRestore(failing) ==
    /\ Stimulus
    /\ Activating("restore", NULL,
                  PresetAt(settings.presetList, SelectedIndex(settings)), TRUE,
                  FALSE, failing)
    /\ UNCHANGED <<host, pendingChecks, checkPc, attempts>>

\* showLockSettings: the lock dialog with its two checkboxes
ShowLockSettings(result, chatLockChecked, contextLockChecked) ==
    /\ Stimulus
    /\ LET context == getCurrentContext
           name == settings.presetName
           W1 == setChatLock(World, IF chatLockChecked THEN name ELSE NULL)
           W2 == IF context.isGroupChat
                 THEN setGroupLock(W1, context.groupId,
                                   IF contextLockChecked THEN name ELSE NULL)
                 ELSE setCharacterLock(W1, context.characterName,
                                       IF contextLockChecked THEN name ELSE NULL)
       IN Finish(IF result THEN W2 ELSE World,
                 Log("lockSettings",
                     [result |-> result, chatLockChecked |-> chatLockChecked,
                      contextLockChecked |-> contextLockChecked],
                     NoAct, FALSE, FALSE), TRUE)
    /\ UNCHANGED <<host, pendingChecks, checkPc, attempts>>

\* What the settings dialog can return: the current values with at most one
\* field changed (any combination is a sequence of such confirmations).
Flags == {"enableCharacterLocks", "enableGroupLocks", "enableChatLocks",
          "preferChatOverCharacterLocks", "showLockNotifications"}

SettingsDialogValues(s) ==
    {[s EXCEPT ![f] = ~s[f]] : f \in Flags}
    \cup {[s EXCEPT !.globalDefaultPreset = d] : d \in RegistryNames(s) \cup {NULL}}

\* showSettings
ShowSettings(result, new) ==
    /\ Stimulus
    /\ new \in SettingsDialogValues(settings)
    /\ LET W1 == [World EXCEPT !.settings = new]
           recheck == /\ result
                      /\ new.globalDefaultPreset # settings.globalDefaultPreset
                      /\ settings.presetName = NULL
                      /\ ~hasAnyLocks(W1, getCurrentContext)
       IN /\ Finish(IF result THEN W1 ELSE World,
                    Log("settings", NULL, NoAct, FALSE, FALSE), recheck)
          /\ IF recheck
             THEN /\ pendingChecks < MaxPending
                  /\ pendingChecks' = pendingChecks + 1
             ELSE UNCHANGED pendingChecks
    /\ UNCHANGED <<host, checkPc, attempts>>

\* Mutant: every lock entry is retargeted, whatever it referenced.
Retarget_M(locks, old, new) ==
    [k \in DOMAIN locks |-> IF locks[k] # NULL THEN new ELSE locks[k]]

\* Replace every value equal to `old` by `new` in a lock map.
Retarget(locks, old, new) ==
    [k \in DOMAIN locks |-> IF locks[k] = old THEN new ELSE locks[k]]

\* btnRename click handler
BtnRename(name) ==
    /\ Stimulus
    /\ LET oldName == settings.presetName
           i == SelectedIndex(settings)
           W1 == IF getChatLock(World) = oldName THEN setChatLock(World, name) ELSE World
           W2 == [W1 EXCEPT
                    !.settings.characterLocks = Retarget(@, oldName, name),
                    !.settings.groupLocks = Retarget(@, oldName, name),
                    !.settings.globalDefaultPreset = IF @ = oldName THEN name ELSE @]
           \* settings.preset.name = name throws when presetName names no preset
           W3 == [W2 EXCEPT !.settings.presetList[i].name = name,
                            !.settings.presetName = name]
       IN IF name = NULL \/ name = oldName
          THEN Finish(World, Log("rename", name, NoAct, FALSE, FALSE), FALSE)
          ELSE IF i = 0
          THEN Finish(W2, Log("rename", name, NoAct, FALSE, TRUE), FALSE)
          ELSE Finish(W3, Log("rename", name, NoAct, FALSE, FALSE), FALSE)
    /\ UNCHANGED <<host, pendingChecks, checkPc, attempts>>

\* snapshotWorldInfoSettings(): the engine configuration in force
snapshotWorldInfoSettings(W) == W.engine

\* What showSettingsSelectionDialog returns: NULL (cancelled), "none"
\* (includeSettings unchecked), "{}" (checked, no setting selected) or "all"
\* (checked, every setting selected).
SettingsChoices == {NULL, "none", "{}", "all"}

\* Mutant: the settings in force are captured whatever the dialog said.
capturedSettings_M(W, settingsToInclude) == snapshotWorldInfoSettings(W)

\* preset.worldInfoSettings as createPreset assigns it
capturedSettings(W, settingsToInclude) ==
    IF settingsToInclude = "none" THEN NULL
    ELSE IF settingsToInclude = "{}" THEN "{}"
    ELSE snapshotWorldInfoSettings(W)

\* createPreset: name prompt, settings-inclusion dialog, then append
createPreset(op, name, settingsToInclude) ==
    LET preset == PresetWith(name, world_info, capturedSettings(World, settingsToInclude))
        W1 == [World EXCEPT !.settings.presetList = Append(@, preset),
                            !.settings.presetName = name]
    IN IF name = NULL \/ settingsToInclude = NULL
       THEN Finish(World, Log(op, name, NoAct, FALSE, FALSE), FALSE)
       ELSE /\ Len(settings.presetList) < MaxPresets
            /\ Finish(W1, Log(op, name, NoAct, FALSE, FALSE), TRUE)

\* btnCreate click handler
BtnCreate(name, settingsToInclude) ==
    /\ Stimulus
    /\ createPreset("create", name, settingsToInclude)
    /\ UNCHANGED <<host, pendingChecks, checkPc, attempts>>

\* btnUpdate click handler
BtnUpdate(name, settingsToInclude) ==
    /\ Stimulus
    /\ LET i == SelectedIndex(settings)
       IN IF i = 0
          THEN createPreset("update", name, settingsToInclude)
          ELSE Finish([World EXCEPT !.settings.presetList[i].worldList = world_info,
                                    !.settings.presetList[i].worldInfoSettings =
                                        snapshotWorldInfoSettings(World)],
                      Log("update", NULL, NoAct, FALSE, FALSE), FALSE)
    /\ UNCHANGED <<host, pendingChecks, checkPc, attempts>>

\* Mutant: the cascade is forgotten.
Strip_M(locks, name) == locks

\* Delete every key whose value is `name` from a lock map.
Strip(locks, name) ==
    [k \in DOMAIN locks |-> IF locks[k] = name THEN NULL ELSE locks[k]]

\* btnDelete click handler: the guard, the confirmation popup and what follows it
deletePreset(confirmed, failing) ==
    /\ settings.presetName # NULL
    /\ LET presetName == settings.presetName
           W1 == [World EXCEPT
                    !.settings.characterLocks = Strip(@, presetName),
                    !.settings.groupLocks = Strip(@, presetName)]
           W2 == IF getChatLock(W1) = presetName THEN setChatLock(W1, NULL) ELSE W1
           W3 == [W2 EXCEPT
                    !.settings.globalDefaultPreset = IF @ = presetName THEN NULL ELSE @,
                    !.settings.presetList = SpliceIndexOf(@, SelectedIndex(settings)),
                    !.settings.presetName = NULL]
           r == activatePreset(W3, getCurrentContext, NoPreset, TRUE, FALSE, failing)
       IN IF confirmed
          THEN Finish(r.W, Log("delete", presetName,
                               ActLog(r, NoPreset, TRUE, FALSE, failing), FALSE, FALSE),
                      TRUE)
          ELSE Finish(World, Log("delete", presetName, NoAct, FALSE, FALSE), FALSE)

BtnDelete(confirmed, failing) ==
    /\ Stimulus
    /\ deletePreset(confirmed, failing)
    /\ UNCHANGED <<host, pendingChecks, checkPc, attempts>>

\* The same handler run while activatePreset calls are suspended at an await.
BtnDeleteDuringCalls(confirmed) ==
    /\ deletePreset(confirmed, {})
    /\ UNCHANGED <<host, pendingChecks, checkPc, attempts, ops, bookNames,
                   lastRenameCheck, dialogs, calls, now>>

-----------------------------------------------------------------------------
(* Import.  A file is what JSON.parse makes of its text: `parses` is FALSE *)
(* when JSON.parse throws, name = NULL when the name field is missing,     *)
(* hasWorldList = FALSE when the worldList field is missing (the preset    *)
(* then carries worldList undefined, which activatePreset reads as []).    *)

NoLocks == [c \in Chars |-> NULL]

NoGroupLocks == [g \in Groups |-> NULL]

\* A payload with every field of the format that the model tracks.
Payload(parses, name, hasWorldList, worldList, worldInfoSettings, characterLocks, groupLocks, isGlobalDefault) ==
    [parses |-> parses, name |-> name, hasWorldList |-> hasWorldList,
     worldList |-> worldList, worldInfoSettings |-> worldInfoSettings,
     characterLocks |-> characterLocks, groupLocks |-> groupLocks,
     isGlobalDefault |-> isGlobalDefault]

\* A payload without worldInfoSettings and without group locks.
FileOf(parses, name, hasWorldList, worldList, characterLocks, isGlobalDefault) ==
    Payload(parses, name, hasWorldList, worldList, NULL, characterLocks, NoGroupLocks,
            isGlobalDefault)

FBad == FileOf(FALSE, NULL, FALSE, {}, NoLocks, FALSE)
FNoName == FileOf(TRUE, NULL, TRUE, {"b3"}, NoLocks, FALSE)
FNoList == FileOf(TRUE, "Z", FALSE, {}, NoLocks, FALSE)
FNew == FileOf(TRUE, "Z", TRUE, {"b3"}, NoLocks, FALSE)
FA == FileOf(TRUE, "A", TRUE, {"b3"}, [c \in Chars |-> IF c = "c2" THEN "A" ELSE NULL], TRUE)
Fa == FileOf(TRUE, "a", TRUE, {"b1"}, NoLocks, FALSE)

\* The file lists offered to one import.
ImportBatches ==
    {<<FBad>>, <<FNoName>>, <<FNoList>>, <<FNew>>, <<FA>>, <<Fa>>,
     <<FBad, FNew>>, <<FNoList, FA>>, <<FNoName, Fa>>, <<FNew, FNew>>}

\* The user's answers during one import: the name typed at every name
\* prompt, and the answers to the overwrite, lock / default import and
\* lock-conflict confirmations.
ImportAnswers ==
    [typed : {"A", "a", "Z"}, overwrite : BOOLEAN, doImport : BOOLEAN,
     shouldUpdate : BOOLEAN]

\* Object.assign(target, source) on lock maps
Assign(target, source) ==
    [k \in DOMAIN target |-> IF source[k] # NULL THEN source[k] ELSE target[k]]

\* The `while (old)` loop of importSinglePreset with the user typing `typed`
\* at every prompt: the name is free ("new"), or the typed name equals
\* data.name and the overwrite confirmation follows ("overwrite").
ResolveImportName(list, name, typed) ==
    LET i == FindIgnoreCase(list, name)
        j == FindIgnoreCase(list, typed)
    IN IF i = 0 THEN [kind |-> "new", name |-> name, index |-> 0]
       ELSE IF typed = name THEN [kind |-> "overwrite", name |-> name, index |-> i]
       ELSE IF j = 0 THEN [kind |-> "new", name |-> typed, index |-> 0]
       ELSE [kind |-> "overwrite", name |-> typed, index |-> j]

\* importCharacterLocks, importGroupLocks and importGlobalDefault
importExtras(W, file, name, ans) ==
    LET W1 == IF file.characterLocks # NoLocks /\ ans.doImport
              THEN [W EXCEPT !.settings.characterLocks = Assign(@, file.characterLocks)]
              ELSE W
        W2 == IF file.groupLocks # NoGroupLocks /\ ans.doImport
              THEN [W1 EXCEPT !.settings.groupLocks = Assign(@, file.groupLocks)]
              ELSE W1
    IN IF file.isGlobalDefault /\ ans.doImport
       THEN [W2 EXCEPT !.settings.globalDefaultPreset = name]
       ELSE W2

\* Whether importCharacterLocks, importGroupLocks or importGlobalDefault
\* called saveSettingsDebounced().
extrasSaved(file, ans) ==
    /\ ans.doImport
    /\ \/ file.characterLocks # NoLocks
       \/ file.groupLocks # NoGroupLocks
       \/ file.isGlobalDefault

\* Mutant: the old preset is dropped and the imported one appended.
overwritePreset_M(list, index, books) ==
    Append(RemoveAt(list, index), Preset(list[index].name, books))

\* old.worldList = data.worldList (old.worldInfoSettings is assigned by
\* importSinglePreset)
overwritePreset(list, index, books) ==
    [list EXCEPT ![index].worldList = books]

\* importSinglePreset(file): the world after the call, whether the catch
\* block reported an error, and the activatePreset(old) call it started.
importSinglePreset(W, context, file, ans, failing) ==
    LET list == W.settings.presetList
        res == ResolveImportName(list, file.name, ans.typed)
        books == IF file.hasWorldList THEN file.worldList ELSE {}
        \* old.worldList = data.worldList;
        \* old.worldInfoSettings = data.worldInfoSettings ?? null
        over == importExtras([W EXCEPT !.settings.presetList =
                                  [overwritePreset(@, res.index, books)
                                      EXCEPT ![res.index].worldInfoSettings =
                                                 file.worldInfoSettings]],
                             file, res.name, ans)
        r == activatePreset(over, context, over.settings.presetList[res.index], FALSE,
                            ans.shouldUpdate, failing)
        fresh == importExtras([W EXCEPT !.settings.presetList =
                                            Append(@, PresetWith(res.name, books,
                                                                 file.worldInfoSettings))],
                              file, res.name, ans)
    IN IF ~file.parses \/ file.name = NULL
       THEN \* JSON.parse or data.name.toLowerCase() throws
            [W |-> W, kind |-> "error", name |-> NULL, error |-> TRUE, act |-> NoAct,
             saved |-> FALSE]
       ELSE IF res.kind = "overwrite" /\ ~ans.overwrite
       THEN [W |-> W, kind |-> "declined", name |-> res.name, error |-> FALSE,
             act |-> NoAct, saved |-> FALSE]
       ELSE IF res.kind = "overwrite" /\ SelectedIndex(over.settings) = res.index
       THEN \* settings.preset == old: activatePreset(old), not awaited, then
            \* saveSettingsDebounced()
            [W |-> r.W, kind |-> "overwrite", name |-> res.name, error |-> FALSE,
             act |-> ActLog(r, over.settings.presetList[res.index], FALSE,
                            ans.shouldUpdate, failing),
             saved |-> TRUE]
       ELSE IF res.kind = "overwrite"
       THEN \* no saveSettingsDebounced() but those of the lock / default imports
            [W |-> over, kind |-> "overwrite", name |-> res.name, error |-> FALSE,
             act |-> NoAct, saved |-> extrasSaved(file, ans)]
       ELSE \* pushed; updateSelect builds the tooltip of the added preset and
            \* preset.worldList.join throws when worldList is undefined, before
            \* the final saveSettingsDebounced()
            [W |-> fresh, kind |-> "new", name |-> res.name,
             error |-> ~file.hasWorldList, act |-> NoAct,
             saved |-> file.hasWorldList \/ extrasSaved(file, ans)]

\* What importSinglePreset(file), called in world W with outcome r, found
\* and left.
importStep(file, W, r) ==
    [file |-> file, before |-> W, after |-> r.W, kind |-> r.kind, name |-> r.name,
     error |-> r.error, act |-> r.act, saved |-> r.saved]

RECURSIVE importPreset(_, _, _, _, _)

\* The rest of the loop after the first file's importSinglePreset gave r.
importRemaining(W, context, files, ans, failing, r) ==
    LET rest == importPreset(r.W, context, Tail(files), ans, failing)
    IN [W |-> rest.W, steps |-> <<importStep(Head(files), W, r)>> \o rest.steps]

\* importPreset(files): the files one after another; steps records what each
\* file found and left.
importPreset(W, context, files, ans, failing) ==
    IF files = <<>> THEN [W |-> W, steps |-> <<>>]
    ELSE importRemaining(W, context, files, ans, failing,
                         importSinglePreset(W, context, Head(files), ans, failing))

\* importFile 'change' listener: await importPreset(importFile.files)
ImportPreset(files, ans, failing) ==
    /\ Stimulus
    /\ files \in ImportBatches
    /\ LET run == importPreset(World, getCurrentContext, files, ans, failing)
           activated == \E k \in 1..Len(run.steps) : run.steps[k].act.activated
       IN Finish(run.W, Log("import", run.steps, NoAct, FALSE, FALSE), activated)
    /\ UNCHANGED <<host, pendingChecks, checkPc, attempts>>

-----------------------------------------------------------------------------
(* Export: the payload btnExport writes for the selected preset (books not *)
(* included).                                                              *)

\* The entries of a lock map whose value is `name`.
relevantLocks(locks, name) ==
    [k \in DOMAIN locks |-> IF locks[k] = name THEN locks[k] ELSE NULL]

\* Mutant: the group locks are left out of the payload.
exportPayload_M(W) ==
    LET preset == PresetAt(W.settings.presetList, SelectedIndex(W.settings))
    IN Payload(TRUE, preset.name, TRUE, preset.worldList, preset.worldInfoSettings,
               relevantLocks(W.settings.characterLocks, W.settings.presetName),
               NoGroupLocks,
               W.settings.globalDefaultPreset = W.settings.presetName)

\* JSON.parse(JSON.stringify(data)) for data = settings.preset.toJSON() plus
\* characterLocks, groupLocks and isGlobalDefault; defined when a preset is
\* selected.
exportPayload(W) ==
    LET preset == PresetAt(W.settings.presetList, SelectedIndex(W.settings))
    IN Payload(TRUE, preset.name, TRUE, preset.worldList, preset.worldInfoSettings,
               relevantLocks(W.settings.characterLocks, W.settings.presetName),
               relevantLocks(W.settings.groupLocks, W.settings.presetName),
               W.settings.globalDefaultPreset = W.settings.presetName)

-----------------------------------------------------------------------------
(* Host: identities the host can present, the events it emits, and the     *)
(* user's own changes to the live book selection.                          *)

HostState(group, name2, file, character_name, group_chat_id) ==
    [selected_group |-> group, name2 |-> name2, file_name |-> file,
     character_name |-> character_name, group_chat_id |-> group_chat_id]

\* Nothing loaded yet: no group, no name2, empty chat metadata.
HostNotReady == HostState(NULL, NULL, NULL, NULL, NULL)

HostC1 == HostState(NULL, "c1 ", "ch1", "c1", NULL)
HostC2 == HostState(NULL, systemUserName, "ch2", " c2", NULL)
HostG1 == HostState("g1", "c2", "ch3", NULL, "ch3")

HostStates == {HostNotReady, HostC1, HostC2, HostG1}

\* Mutant: the handler forgets to arm the timer.
ContextEvent_M(op, h) ==
    /\ Stimulus
    /\ h \in HostStates
    /\ pendingChecks < MaxPending
    /\ host' = h
    /\ cachedContext' = ComputeContext(h)
    /\ cacheTimestamp' = now
    /\ log' = Log(op, NULL, NoAct, FALSE, FALSE)
    /\ pre' = Snapshot
    /\ UNCHANGED <<engine, settings, chat_metadata, world_info, checkPc, attempts,
                   pendingChecks>>

\* onCharacterChanged / onChatChanged: clearContextCache(), updateLockButton()
\* (which resolves the new context), then arm the 100ms timer.
contextChanged(op, h) ==
    /\ h \in HostStates
    /\ pendingChecks < MaxPending
    /\ host' = h
    /\ cachedContext' = ComputeContext(h)
    /\ cacheTimestamp' = now
    /\ pendingChecks' = pendingChecks + 1
    /\ log' = Log(op, NULL, NoAct, FALSE, FALSE)
    /\ pre' = Snapshot
    /\ UNCHANGED <<engine, settings, chat_metadata, world_info, checkPc, attempts>>

ContextEvent(op, h) ==
    /\ Stimulus
    /\ contextChanged(op, h)

\* The same handlers run while activatePreset calls are suspended at an await.
ContextEventDuringCalls(h) ==
    /\ contextChanged("contextEvent", h)
    /\ UNCHANGED <<ops, bookNames, lastRenameCheck, dialogs, calls, now>>

onCharacterChanged(h) == ContextEvent("contextEvent", h)

onChatChanged(h) == ContextEvent("contextEvent", h)

\* Mutant: the handler forgets to clear the cache.
onChatLoaded_M(h) ==
    /\ Stimulus
    /\ h \in HostStates
    /\ pendingChecks < MaxPending
    /\ host' = h
    /\ pendingChecks' = pendingChecks + 1
    /\ log' = Log("contextEvent", NULL, NoAct, FALSE, FALSE)
    /\ pre' = Snapshot
    /\ UNCHANGED <<engine, settings, chat_metadata, world_info, checkPc, attempts,
                   cachedContext, cacheTimestamp>>

\* CHAT_LOADED handler: clearContextCache() and arm the 500ms timer
onChatLoaded(h) ==
    /\ Stimulus
    /\ h \in HostStates
    /\ pendingChecks < MaxPending
    /\ host' = h
    /\ cachedContext' = NoCache
    /\ cacheTimestamp' = 0
    /\ pendingChecks' = pendingChecks + 1
    /\ log' = Log("contextEvent", NULL, NoAct, FALSE, FALSE)
    /\ pre' = Snapshot
    /\ UNCHANGED <<engine, settings, chat_metadata, world_info, checkPc, attempts>>

\* The user ticks or unticks a book in the host's own World Info selector.
HostToggleBook(book) ==
    /\ Stimulus
    /\ book \in Books
    /\ world_info' = IF book \in world_info THEN world_info \ {book}
                     ELSE world_info \cup {book}
    /\ log' = Log("hostToggleBook", book, NoAct, FALSE, FALSE)
    /\ pre' = Snapshot
    /\ UNCHANGED <<engine, settings, chat_metadata, host, cachedContext, pendingChecks,
                   checkPc, attempts, cacheTimestamp>>

-----------------------------------------------------------------------------
(* Book-rename observer: the MutationObserver on the host's World Info     *)
(* selector (#world_info).                                                 *)

\* The option lists the host's selector can show after a change.
BookLists ==
    { {"b1", "b2", "b3"},            \* as at start-up
      {"b9", "b2", "b3"},            \* b1 renamed to b9
      {"b1", "b2", "b4"},            \* b3 renamed to b4
      {"b2", "b3"},                  \* b1 deleted
      {"b1", "b2", "b3", "b4"},      \* b4 created
      {"b8", "b9", "b3"} }           \* two books replaced

added(oldNames, newNames) == newNames \ oldNames
removed(oldNames, newNames) == oldNames \ newNames

\* The presets the rename popup lists: presetList.filter(worldList.includes(oldName))
presetsIncluding(list, oldName) ==
    {i \in 1..Len(list) : oldName \in list[i].worldList}

\* What the callback decides when it gets past its throttle.
renameProposal_M(list, oldNames, newNames) ==
    LET a == added(oldNames, newNames)
        r == removed(oldNames, newNames)
    IN IF Cardinality(r) = 1
       THEN LET oldName == CHOOSE x \in r : TRUE
                newName == IF a = {} THEN oldName ELSE CHOOSE x \in a : TRUE
            IN [proposed |-> presetsIncluding(list, oldName) # {},
                oldName |-> oldName, newName |-> newName,
                presets |-> presetsIncluding(list, oldName)]
       ELSE [proposed |-> FALSE, oldName |-> NULL, newName |-> NULL, presets |-> {}]

renameProposal(list, oldNames, newNames) ==
    LET a == added(oldNames, newNames)
        r == removed(oldNames, newNames)
    IN IF Cardinality(a) = 1 /\ Cardinality(r) = 1
       THEN LET oldName == CHOOSE x \in r : TRUE
                newName == CHOOSE x \in a : TRUE
            IN [proposed |-> presetsIncluding(list, oldName) # {},
                oldName |-> oldName, newName |-> newName,
                presets |-> presetsIncluding(list, oldName)]
       ELSE [proposed |-> FALSE, oldName |-> NULL, newName |-> NULL, presets |-> {}]

\* preset.worldList.splice(preset.worldList.indexOf(oldName), 1, newName)
\* for every listed preset.
renameInPresets(list, p) ==
    [i \in 1..Len(list) |->
        IF i \in p.presets
        THEN [list[i] EXCEPT !.worldList = (@ \ {p.oldName}) \cup {p.newName}]
        ELSE list[i]]

NoProposal == [proposed |-> FALSE, oldName |-> NULL, newName |-> NULL, presets |-> {}]

\* The observer's callback.  `soon` tells whether less than 1000ms passed
\* since the callback last got past its throttle; `result` is the user's
\* answer to the rename popup.
BooksChanged(newNames, soon, result) ==
    /\ ops < MaxBookEvents
    /\ ops' = ops + 1
    /\ newNames \in BookLists
    /\ soon => lastRenameCheck = 1
    /\ LET p == IF soon THEN NoProposal
                ELSE renameProposal(settings.presetList, bookNames, newNames)
           W == IF p.proposed /\ result
                THEN [World EXCEPT !.settings.presetList = renameInPresets(@, p)]
                ELSE World
       IN /\ Finish(W, Log("booksChanged",
                            [bookNames |-> bookNames, newNames |-> newNames,
                             throttled |-> soon, proposed |-> p.proposed,
                             oldName |-> p.oldName, newName |-> p.newName,
                             result |-> p.proposed /\ result],
                            NoAct, FALSE, FALSE), FALSE)
          /\ bookNames' = IF soon THEN bookNames ELSE newNames
          /\ lastRenameCheck' = IF soon THEN lastRenameCheck ELSE 1
    /\ UNCHANGED <<host, pendingChecks, checkPc, attempts, calls, dialogs, now>>

-----------------------------------------------------------------------------
(* The observer's callback step by step: it is suspended at                *)
(* `await dlg.show()`, and further callbacks run while the popup is open.  *)

\* What a callback suspended at its popup holds in its locals.
OpenDialog(p, newNames) ==
    [oldName |-> p.oldName, newName |-> p.newName, presets |-> p.presets,
     newNames |-> newNames]

\* The book-name list the selector showed at the last notification.
ObservedList ==
    IF log.op \in {"booksNotified", "renameAnswered"} THEN log.arg.observed ELSE bookNames

\* The element at the end of each preset's worldList array.  The model keeps
\* worldList as a set, so every element can be the last one; NULL for an
\* empty array.
LastElements(list) ==
    {last \in [1..Len(list) -> UNION BookLists \cup {NULL}] :
        \A i \in 1..Len(list) :
            IF list[i].worldList = {} THEN last[i] = NULL
            ELSE last[i] \in list[i].worldList}

\* worldList.splice(worldList.indexOf(oldName), 1, newName): indexOf gives
\* -1 when oldName is not in the array, and splice(-1, 1, newName) replaces
\* the last element.
splice(worldList, oldName, newName, last) ==
    IF oldName \in worldList
    THEN (worldList \ {oldName}) \cup {newName}
    ELSE (worldList \ {last}) \cup {newName}

\* for (const preset of presets) preset.worldList.splice(...)
spliceInPresets(list, d, last) ==
    [i \in 1..Len(list) |->
        IF i \in d.presets
        THEN [list[i] EXCEPT !.worldList = splice(@, d.oldName, d.newName, last[i])]
        ELSE list[i]]

\* The callback runs up to its popup, or to its end when it shows none.
BooksNotified(newNames, soon) ==
    /\ ops < MaxBookEvents
    /\ ops' = ops + 1
    /\ newNames \in BookLists
    /\ soon => lastRenameCheck = 1
    /\ LET p == IF soon THEN NoProposal
                ELSE renameProposal(settings.presetList, bookNames, newNames)
       IN /\ Finish(World, Log("booksNotified",
                                [bookNames |-> bookNames, observed |-> newNames,
                                 throttled |-> soon, proposed |-> p.proposed],
                                NoAct, FALSE, FALSE), FALSE)
          /\ dialogs' = IF p.proposed THEN Append(dialogs, OpenDialog(p, newNames))
                        ELSE dialogs
          /\ bookNames' = IF soon \/ p.proposed THEN bookNames ELSE newNames
          /\ lastRenameCheck' = IF soon THEN lastRenameCheck ELSE 1
    /\ UNCHANGED <<host, pendingChecks, checkPc, attempts, calls, now>>

\* The user answers the popup on top; its callback runs to its end.
RenameAnswered(result, last) ==
    /\ dialogs # <<>>
    /\ last \in LastElements(settings.presetList)
    /\ LET d == dialogs[Len(dialogs)]
           W == IF result
                THEN [World EXCEPT !.settings.presetList = spliceInPresets(@, d, last)]
                ELSE World
       IN /\ Finish(W, Log("renameAnswered",
                            [dialog |-> d, result |-> result, observed |-> ObservedList,
                             left |-> Len(dialogs) - 1],
                            NoAct, FALSE, FALSE), FALSE)
          /\ bookNames' = d.newNames
          /\ dialogs' = SubSeq(dialogs, 1, Len(dialogs) - 1)
    /\ UNCHANGED <<host, pendingChecks, checkPc, attempts, ops, lastRenameCheck, calls, now>>

-----------------------------------------------------------------------------
(* init(): the extension is constructed again from the persisted state     *)
(* (the page is reloaded).                                                 *)

\* migratePresetsToIncludeSettings(): every preset whose worldInfoSettings is
\* falsy gets the engine configuration in force.
migratePresetsToIncludeSettings(W) ==
    [W EXCEPT !.settings.presetList =
        [i \in 1..Len(@) |->
            IF @[i].worldInfoSettings = NULL
            THEN [@[i] EXCEPT !.worldInfoSettings = snapshotWorldInfoSettings(W)]
            ELSE @[i]]]

\* init(): Settings.from(persisted), the migrations, updateLockButton(), the
\* listeners and the book-rename observer registered anew; timers, suspended
\* calls and the context cache of the previous page are gone.
Reinitialise ==
    /\ LET W == migratePresetsToIncludeSettings(World)
       IN /\ settings' = W.settings
          /\ log' = Log("init", NULL, NoAct,
                        W.settings # settings /\ settings.showLockNotifications, FALSE)
    /\ pre' = Snapshot
    /\ cachedContext' = ComputeContext(host)
    /\ cacheTimestamp' = now
    /\ pendingChecks' = 0
    /\ checkPc' = "idle"
    /\ attempts' = 0
    /\ lastRenameCheck' = 0
    /\ calls' = <<>>
    /\ dialogs' = <<>>
    /\ UNCHANGED <<chat_metadata, world_info, engine, host, ops, bookNames, now>>

-----------------------------------------------------------------------------
(* checkAndApplyLocks                                                      *)

\* What one iteration of the while loop decides in world W for `context`:
\*   "locked"   activatePreset(preset) for the locked preset, return
\*   "notFound" warn that the locked preset is missing, return
\*   "wait"     sleep 100ms, attempts++, continue
\*   "default"  activatePreset(defaultPreset), return
\*   "none"     break
checkDecision(W, context) ==
    LET list == W.settings.presetList
        lockedPreset == getLockForContext(W, context)
        i == FindByName(list, lockedPreset)
        d == FindByName(list, W.settings.globalDefaultPreset)
    IN IF lockedPreset # NULL /\ i # 0
       THEN [kind |-> "locked", preset |-> list[i]]
       ELSE IF lockedPreset # NULL /\ W.settings.showLockNotifications
       THEN [kind |-> "notFound", preset |-> NoPreset]
       ELSE IF context.characterName = NULL /\ context.chatId = NULL
       THEN [kind |-> "wait", preset |-> NoPreset]
       ELSE IF W.settings.globalDefaultPreset # NULL /\ d # 0
       THEN [kind |-> "default", preset |-> list[d]]
       ELSE [kind |-> "none", preset |-> NoPreset]

\* Mutant: the loop is not left after the global default was activated.
CheckIteration_M(att, shouldUpdate, failing) ==
    \E context \in {getCurrentContext} :
    \E dec \in {checkDecision(World, context)} :
    \E r \in {activatePreset(World, context, dec.preset, FALSE, shouldUpdate, failing)} :
       IF dec.kind \in {"locked", "default"}
       THEN /\ Finish(r.W, Log("checkAndApplyLocks", NULL,
                               ActLog(r, dec.preset, FALSE, shouldUpdate, failing),
                               FALSE, FALSE), TRUE)
            /\ checkPc' = IF dec.kind = "default" THEN "waiting" ELSE "idle"
            /\ attempts' = IF dec.kind = "default" THEN att + 1 ELSE 0
       ELSE /\ Finish(World, Log("checkAndApplyLocks", NULL, NoAct,
                                 dec.kind = "notFound", FALSE), TRUE)
            /\ checkPc' = IF dec.kind = "wait" THEN "waiting" ELSE "idle"
            /\ attempts' = IF dec.kind = "wait" THEN att + 1 ELSE 0

\* One iteration of the while loop, entered with the local counter `att`
\* (the locals are bound by \E over singleton sets, so that each is
\* evaluated once).
CheckIteration(att, shouldUpdate, failing) ==
    \E context \in {getCurrentContext} :
    \E dec \in {checkDecision(World, context)} :
    \E r \in {activatePreset(World, context, dec.preset, FALSE, shouldUpdate, failing)} :
       IF dec.kind \in {"locked", "default"}
       THEN /\ Finish(r.W, Log("checkAndApplyLocks", NULL,
                               ActLog(r, dec.preset, FALSE, shouldUpdate, failing),
                               FALSE, FALSE), TRUE)
            /\ checkPc' = "idle"
            /\ attempts' = 0
       ELSE /\ Finish(World, Log("checkAndApplyLocks", NULL, NoAct,
                                 dec.kind = "notFound", FALSE), TRUE)
            /\ checkPc' = IF dec.kind = "wait" THEN "waiting" ELSE "idle"
            /\ attempts' = IF dec.kind = "wait" THEN att + 1 ELSE 0

\* The armed timer fires: checkAndApplyLocks() starts with attempts = 0.
CheckStart(shouldUpdate, failing) ==
    /\ pendingChecks > 0
    /\ checkPc = "idle"
    /\ pendingChecks' = pendingChecks - 1
    /\ CheckIteration(0, shouldUpdate, failing)
    /\ UNCHANGED <<host, ops, bookNames, lastRenameCheck, dialogs, calls, now>>

\* The 100ms sleep ends: next iteration while attempts < maxAttempts.
CheckRetry(shouldUpdate, failing) ==
    /\ checkPc = "waiting"
    /\ attempts < maxAttempts
    /\ CheckIteration(attempts, shouldUpdate, failing)
    /\ UNCHANGED <<host, ops, pendingChecks, bookNames, lastRenameCheck, dialogs, calls, now>>

\* Mutant: the counter starts over instead of ending the loop.
CheckTimedOut_M ==
    /\ checkPc = "waiting"
    /\ attempts >= maxAttempts
    /\ attempts' = 0
    /\ log' = Log("checkTimedOut", NULL, NoAct, FALSE, FALSE)
    /\ pre' = Snapshot
    /\ UNCHANGED <<engine, settings, chat_metadata, world_info, host, cachedContext,
                   pendingChecks, ops, bookNames, lastRenameCheck, dialogs, calls, checkPc,
                   now, cacheTimestamp>>

\* attempts >= maxAttempts: the loop ends, a console warning is logged.
CheckTimedOut ==
    /\ checkPc = "waiting"
    /\ attempts >= maxAttempts
    /\ checkPc' = "idle"
    /\ attempts' = 0
    /\ log' = Log("checkTimedOut", NULL, NoAct, FALSE, FALSE)
    /\ pre' = Snapshot
    /\ UNCHANGED <<engine, settings, chat_metadata, world_info, host, cachedContext,
                   pendingChecks, ops, bookNames, lastRenameCheck, dialogs, calls,
                   now, cacheTimestamp>>

-----------------------------------------------------------------------------
(* Initial states: what the extension finds when it is constructed, i.e.   *)
(* persisted settings and chat metadata, and the host's state.             *)

\* Presets whose settings were captured when the engine was in configuration "s1".
PA == PresetWith("A", {"b1", "b2"}, "s1")
PB == PresetWith("B", {"b2", "b3"}, "s1")

SettingsOf(list, name, default, charLocks, groupLocks, prefer, enChar, enChat, enGroup, notify) ==
    [presetName |-> name, presetList |-> list, characterLocks |-> charLocks,
     groupLocks |-> groupLocks, preferChatOverCharacterLocks |-> prefer,
     enableCharacterLocks |-> enChar, enableChatLocks |-> enChat,
     enableGroupLocks |-> enGroup, showLockNotifications |-> notify,
     globalDefaultPreset |-> default]

InitTransient ==
    /\ cachedContext = NoCache
    /\ cacheTimestamp = 0
    /\ now = 0
    /\ pendingChecks = 0
    /\ checkPc = "idle"
    /\ attempts = 0
    /\ ops = 0
    /\ log = Log("init", NULL, NoAct, FALSE, FALSE)
    /\ pre = Snapshot
    /\ bookNames = Books
    /\ lastRenameCheck = 0
    /\ calls = <<>>
    /\ dialogs = <<>>

\* The host's engine configuration is the one the presets captured.
InitCommon ==
    /\ engine = "s1"
    /\ InitTransient

\* The current chat's lock is l, every other chat has none.
ChatLockOf(h, l) ==
    [c \in Chats \cup {NULL} |-> IF c = h.file_name /\ c # NULL THEN l ELSE NULL]

\* Lock profiles <<chat, c1, c2, g1>> of the persisted state.
LockProfiles ==
    {<<NULL, NULL, NULL, NULL>>,
     <<"A", "A", "B", "A">>,
     <<"B", "A", "A", "B">>,
     <<NULL, "B", NULL, "a">>}

\* <<presetName, globalDefaultPreset>> of the persisted state.
Selections ==
    {<<NULL, NULL>>, <<NULL, "B">>, <<"A", "A">>, <<"A", "B">>, <<"B", NULL>>}

\* Default flags; varied selection, global default, live books and locks.
InitLifecycle ==
    /\ host \in HostStates
    /\ \E sel \in Selections, p \in LockProfiles :
          /\ settings = SettingsOf(<<PA, PB>>, sel[1], sel[2],
                                   [c \in Chars |-> IF c = "c1" THEN p[2] ELSE p[3]],
                                   [g \in Groups |-> p[4]],
                                   FALSE, TRUE, TRUE, TRUE, TRUE)
          /\ chat_metadata = ChatLockOf(host, p[1])
    /\ world_info \in {{}, {"b1", "b2"}, {"b1", "b3"}}
    /\ InitCommon

\* Every combination of the enable / precedence flags and of lock presence.
InitLocks ==
    /\ host \in {HostC1, HostG1}
    /\ \E prefer \in BOOLEAN, enChar \in BOOLEAN, enChat \in BOOLEAN,
          enGroup \in BOOLEAN :
       \E x \in {NULL, "A"} :
          settings = SettingsOf(<<PA, PB>>, "A", NULL,
                                [c \in Chars |-> IF c = "c2" THEN NULL
                                                 ELSE IF host = HostC1 THEN x ELSE "A"],
                                [g \in Groups |-> IF host = HostG1 /\ x = NULL
                                                  THEN NULL ELSE "a"],
                                prefer, enChar, enChat, enGroup, TRUE)
    /\ world_info = {"b1", "b2"}
    /\ \E l \in {NULL, "B"} : chat_metadata = ChatLockOf(host, l)
    /\ InitCommon

Init == InitLifecycle \/ InitLocks

\* The persisted states of InitLifecycle with showLockNotifications unticked.
InitQuiet ==
    /\ host \in HostStates
    /\ \E sel \in Selections, p \in LockProfiles :
          /\ settings = SettingsOf(<<PA, PB>>, sel[1], sel[2],
                                   [c \in Chars |-> IF c = "c1" THEN p[2] ELSE p[3]],
                                   [g \in Groups |-> p[4]],
                                   FALSE, TRUE, TRUE, TRUE, FALSE)
          /\ chat_metadata = ChatLockOf(host, p[1])
    /\ world_info \in {{}, {"b1", "b2"}, {"b1", "b3"}}
    /\ InitCommon

-----------------------------------------------------------------------------
(* Next-state relation.  Failing is the set of book sets whose requests    *)
(* the host may leave without effect.                                      *)

Step(Failing) ==
    \/ \E v \in PresetNames \cup {NULL}, a \in BOOLEAN, f \in Failing :
          PresetSelectChange(v, a, f)
    \/ \E v \in TypedNames, a \in BOOLEAN, f \in Failing : SlashWipreset(v, a, f)
    \/ \E f \in Failing : BtnRestore(f)
    \/ \E r \in BOOLEAN, c \in BOOLEAN, x \in BOOLEAN : ShowLockSettings(r, c, x)
    \/ \E r \in BOOLEAN : \E new \in SettingsDialogValues(settings) : ShowSettings(r, new)
    \/ \E n \in PresetNames \cup {NULL} : BtnRename(n)
    \/ \E n \in PresetNames \cup {NULL}, inc \in {NULL, "all"} : BtnCreate(n, inc)
    \/ \E n \in PresetNames \cup {NULL}, inc \in {NULL, "all"} : BtnUpdate(n, inc)
    \/ \E c \in BOOLEAN, f \in Failing : BtnDelete(c, f)
    \/ \E h \in HostStates : onCharacterChanged(h)
    \/ \E h \in HostStates : onChatChanged(h)
    \/ \E h \in HostStates : onChatLoaded(h)
    \/ \E b \in Books : HostToggleBook(b)
    \/ \E a \in BOOLEAN, f \in Failing : CheckStart(a, f)
    \/ \E a \in BOOLEAN, f \in Failing : CheckRetry(a, f)
    \/ CheckTimedOut

\* Every book request takes effect.
Next == Step({{}})

Spec == Init /\ [][Next]_vars

\* Book requests may fail: none, those for b1, or those for b3.
FailSets == {{}, {"b1"}, {"b3"}}

NextFaulty == Step(FailSets)

\* Failing requests are explored from the states with a character chat or
\* a group chat open.
InitFaulty == InitLifecycle /\ host \in {HostC1, HostG1}

SpecFaulty == InitFaulty /\ [][NextFaulty]_vars

\* Timers fire: an armed setTimeout callback runs, the 100ms sleep of
\* checkAndApplyLocks ends, and its loop is left once attempts are exhausted.
TimersFire ==
    /\ WF_vars(\E a \in BOOLEAN : CheckStart(a, {}))
    /\ WF_vars(\E a \in BOOLEAN : CheckRetry(a, {}))
    /\ WF_vars(CheckTimedOut)

\* Context entry on its own: the host's events and the timers they arm, with
\* no user operation in between.
NextEntry ==
    \/ \E h \in HostStates : onCharacterChanged(h)
    \/ \E h \in HostStates : onChatChanged(h)
    \/ \E h \in HostStates : onChatLoaded(h)
    \/ \E a \in BOOLEAN : CheckStart(a, {})
    \/ \E a \in BOOLEAN : CheckRetry(a, {})
    \/ CheckTimedOut

\* Preset "A" selected and live, every lock profile, in a character chat or
\* a group chat.
InitLive ==
    /\ InitLifecycle
    /\ host \in {HostC1, HostG1}
    /\ world_info = {"b1", "b2"}
    /\ settings.presetName = "A"
    /\ settings.globalDefaultPreset = "B"

SpecLive == InitLive /\ [][NextEntry]_vars /\ TimersFire

\* Registry maintenance: import, create, update, rename, delete.
NextRegistry ==
    \/ \E files \in ImportBatches, ans \in ImportAnswers : ImportPreset(files, ans, {})
    \/ \E n \in PresetNames \cup {NULL}, inc \in SettingsChoices : BtnCreate(n, inc)
    \/ \E n \in PresetNames \cup {NULL}, inc \in SettingsChoices : BtnUpdate(n, inc)
    \/ \E n \in PresetNames \cup {NULL} : BtnRename(n)
    \/ \E c \in BOOLEAN : BtnDelete(c, {})

\* One or two presets with unique names, "A" selected or nothing selected,
\* character c1 unlocked or locked to "A".
InitRegistry ==
    /\ host = HostC1
    /\ \E list \in {<<PA>>, <<PA, PB>>}, name \in {NULL, "A"}, l \in {NULL, "A"} :
          settings = SettingsOf(list, name, NULL,
                                [c \in Chars |-> IF c = "c1" THEN l ELSE NULL],
                                [g \in Groups |-> NULL],
                                FALSE, TRUE, TRUE, TRUE, TRUE)
    /\ chat_metadata = ChatLockOf(host, NULL)
    /\ world_info = {"b1", "b2"}
    /\ InitCommon

SpecRegistry == InitRegistry /\ [][NextRegistry]_vars

\* The book list changing under a registry of one or two presets.
NextBooks ==
    \E newNames \in BookLists, soon \in BOOLEAN, result \in BOOLEAN :
        BooksChanged(newNames, soon, result)

InitBooks ==
    /\ host = HostC1
    /\ \E list \in {<<PA>>, <<PA, PB>>} :
          settings = SettingsOf(list, "A", NULL,
                                [c \in Chars |-> NULL], [g \in Groups |-> NULL],
                                FALSE, TRUE, TRUE, TRUE, TRUE)
    /\ chat_metadata = ChatLockOf(host, NULL)
    /\ world_info = {"b1", "b2"}
    /\ InitCommon

SpecBooks == InitBooks /\ [][NextBooks]_vars

\* The same, with the callback's popup as a step of its own.
NextDialogs ==
    \/ \E newNames \in BookLists, soon \in BOOLEAN : BooksNotified(newNames, soon)
    \/ \E result \in BOOLEAN, last \in LastElements(settings.presetList) :
          RenameAnswered(result, last)

SpecDialogs == InitBooks /\ [][NextDialogs]_vars

\* activatePreset calls that can overlap.
NextReentrant ==
    \/ \E i \in 0..Len(settings.presetList), skip \in BOOLEAN :
          ActivateStart(PresetAt(settings.presetList, i), skip)
    \/ \E i \in 1..MaxCalls, shouldUpdate \in BOOLEAN : PromptAnswered(i, shouldUpdate)
    \/ \E i \in 1..MaxCalls : BookRequestDone(i)

\* Presets A and B, character c1 unlocked or locked to "A", nothing or A live.
InitReentrant ==
    /\ host = HostC1
    /\ \E l \in {NULL, "A"}, name \in {NULL, "A"} :
          /\ settings = SettingsOf(<<PA, PB>>, name, NULL,
                                   [c \in Chars |-> IF c = "c1" THEN l ELSE NULL],
                                   [g \in Groups |-> NULL],
                                   FALSE, TRUE, TRUE, TRUE, TRUE)
          /\ world_info = IF name = NULL THEN {} ELSE PA.worldList
    /\ chat_metadata = ChatLockOf(host, NULL)
    /\ InitCommon

SpecReentrant == InitReentrant /\ [][NextReentrant]_vars

\* Deleting the selected preset while activatePreset calls are under way.
NextDeleting ==
    \/ NextReentrant
    \/ \E c \in BOOLEAN : BtnDeleteDuringCalls(c)

SpecDeleting == InitReentrant /\ [][NextDeleting]_vars

\* The chat, the character or the group changing while activatePreset calls
\* are under way.
NextSwitching ==
    \/ NextReentrant
    \/ \E h \in HostStates : ContextEventDuringCalls(h)

\* Presets A and B, "A" selected and live in the chat of character c1, which
\* is locked to "A"; the other chats, character c2 and group g1 unlocked or
\* locked to "A".
InitSwitching ==
    /\ host = HostC1
    /\ \E l \in {NULL, "A"}, g \in {NULL, "A"}, x \in {NULL, "A"} :
          /\ settings = SettingsOf(<<PA, PB>>, "A", NULL,
                                   [c \in Chars |-> IF c = "c1" THEN "A" ELSE l],
                                   [k \in Groups |-> g],
                                   FALSE, TRUE, TRUE, TRUE, TRUE)
          /\ chat_metadata = [c \in Chats \cup {NULL} |->
                                 IF c \in {"ch2", "ch3"} THEN x ELSE NULL]
    /\ world_info = PA.worldList
    /\ InitCommon

SpecSwitching == InitSwitching /\ [][NextSwitching]_vars

\* Presets with and without captured engine settings: activation, creation,
\* import and a reload of the page, with the engine-settings patch succeeding,
\* failing verification or throwing.
PatchFailSets == {{}, {"patchPartial"}, {"patchThrows"}}

\* Book requests that fail: without effect, or with executeSlashCommands
\* rejecting.
RequestFailSets == {{"b3"}, {"b3", "throws"}, {"b1", "throws"}}

NextEngine ==
    \/ Reinitialise
    \/ \E v \in PresetNames \cup {NULL, "Z"}, a \in BOOLEAN,
             f \in PatchFailSets \cup RequestFailSets :
          PresetSelectChange(v, a, f)
    \/ \E f \in PatchFailSets \cup RequestFailSets : BtnRestore(f)
    \/ \E n \in {NULL, "Z"}, inc \in SettingsChoices : BtnCreate(n, inc)
    \/ \E c \in BOOLEAN : BtnDelete(c, {})
    \/ \E files \in {<<FNew>>, <<FA>>}, ans \in ImportAnswers : ImportPreset(files, ans, {})

\* "Z" was created without settings, or with an empty selection of settings;
\* "B" captured another engine configuration than the one in force.
InitEngine ==
    /\ host = HostC1
    /\ \E list \in {<<PA>>, <<PA, PresetWith("Z", {"b3"}, NULL)>>,
                    <<PA, PresetWith("Z", {"b3"}, "{}")>>,
                    <<PA, PresetWith("B", {"b2", "b3"}, "s2")>>},
          name \in {NULL, "A"} :
          /\ settings = SettingsOf(list, name, NULL,
                                   [c \in Chars |-> NULL], [g \in Groups |-> NULL],
                                   FALSE, TRUE, TRUE, TRUE, TRUE)
          /\ world_info = IF name = NULL THEN {} ELSE PA.worldList
    /\ chat_metadata = ChatLockOf(host, NULL)
    /\ engine \in EngineConfigs
    /\ InitTransient

SpecEngine == InitEngine /\ [][NextEngine]_vars

\* The registry after createPreset was given a name that differs from an
\* existing one in case only (createPreset looks for no existing name): the
\* new preset holds the live books and the engine configuration, and is the
\* selection.
NextCaseNames ==
    \/ \E c \in BOOLEAN : BtnDelete(c, {})
    \/ \E v \in PresetNames \cup {NULL, "a", "b"}, a \in BOOLEAN : PresetSelectChange(v, a, {})
    \/ \E files \in {<<Fa>>, <<FA>>, <<FNew>>}, ans \in ImportAnswers :
          ImportPreset(files, ans, {})

InitCaseNames ==
    /\ host = HostC1
    /\ \E old \in {PA, PB}, l \in {NULL, "A", "B", "a", "b"}, g \in {NULL, "a", "b"},
          d \in {NULL, "a", "b"} :
          settings = SettingsOf(<<old, PresetWith(toLowerCase(old.name), {"b1", "b2"}, "s1")>>,
                                toLowerCase(old.name), d,
                                [c \in Chars |-> IF c = "c1" THEN l ELSE NULL],
                                [x \in Groups |-> g],
                                FALSE, TRUE, TRUE, TRUE, TRUE)
    /\ chat_metadata = ChatLockOf(host, NULL)
    /\ world_info = {"b1", "b2"}
    /\ InitCommon

SpecCaseNames == InitCaseNames /\ [][NextCaseNames]_vars

\* The extension started with lock notifications switched off.
SpecQuiet == InitQuiet /\ [][Next]_vars

-----------------------------------------------------------------------------
(* Properties.  `pre` is the state the last handler started from, `log`    *)
(* what it did; handlers other than the context events leave host alone.   *)

PreWorld == [settings |-> pre.settings, chat_metadata |-> pre.chat_metadata,
             world_info |-> pre.world_info, engine |-> pre.engine]

\* The current chat's lock, the current character's lock and the current
\* group's lock as stored (ungated) in world W for context c.
StoredChatLock(W) == W.chat_metadata[host.file_name]
StoredCharacterLock(W, c) ==
    IF c.characterName = NULL THEN NULL ELSE W.settings.characterLocks[c.characterName]
StoredGroupLock(W, c) ==
    IF c.groupId = NULL THEN NULL ELSE W.settings.groupLocks[c.groupId]

\* chatLock and contextLock of the precedence table.
GatedChatLock(W) ==
    IF W.settings.enableChatLocks THEN StoredChatLock(W) ELSE NULL
GatedContextLock(W, c) ==
    IF c.isGroupChat /\ W.settings.enableGroupLocks THEN StoredGroupLock(W, c)
    ELSE IF ~c.isGroupChat /\ W.settings.enableCharacterLocks
    THEN StoredCharacterLock(W, c)
    ELSE NULL

\* The lock the precedence table gives.
TableLock(W, c) ==
    LET chatLock == GatedChatLock(W)
        contextLock == GatedContextLock(W, c)
    IN CASE W.settings.preferChatOverCharacterLocks /\ chatLock # NULL -> chatLock
         [] W.settings.preferChatOverCharacterLocks /\ chatLock = NULL -> contextLock
         [] ~W.settings.preferChatOverCharacterLocks /\ contextLock # NULL -> contextLock
         [] OTHER -> chatLock

\* C1: in every state getLockForContext returns chatLock if present else
\* contextLock when preferChatOverCharacterLocks is set, and contextLock if
\* present else chatLock when it is not, the two being gated by their enable
\* flags and contextLock chosen by isGroupChat.
C1_LockPrecedence ==
    getLockForContext(World, getCurrentContext) = TableLock(World, getCurrentContext)

\* C1 witness: chat lock "B" and character lock "A" both enabled; the flag
\* set gives "B".
C1_Witness ==
    /\ settings.preferChatOverCharacterLocks
    /\ GatedChatLock(World) = "B"
    /\ GatedContextLock(World, getCurrentContext) = "A"
    /\ getLockForContext(World, getCurrentContext) = "B"

\* World W without the stored locks of the disabled categories.
WithoutDisabled(W) ==
    [W EXCEPT
       !.chat_metadata = IF W.settings.enableChatLocks THEN @
                         ELSE [c \in DOMAIN @ |-> NULL],
       !.settings.characterLocks = IF W.settings.enableCharacterLocks THEN @
                                   ELSE [c \in DOMAIN @ |-> NULL],
       !.settings.groupLocks = IF W.settings.enableGroupLocks THEN @
                               ELSE [g \in DOMAIN @ |-> NULL]]

\* The lock-conflict prompt of the last handler was accepted.
Retargeted == log.act.activated /\ log.act.prompted /\ log.act.answer

\* C2: a stored lock of a disabled category is treated as absent: it does not
\* change the result of getLockForContext or of hasAnyLocks, and an accepted
\* lock-conflict prompt does not rewrite it.
C2_DisabledLocksAbsent ==
    /\ getLockForContext(World, getCurrentContext)
         = getLockForContext(WithoutDisabled(World), getCurrentContext)
    /\ hasAnyLocks(World, getCurrentContext)
         = hasAnyLocks(WithoutDisabled(World), getCurrentContext)
    /\ Retargeted =>
         /\ ~pre.settings.enableChatLocks => chat_metadata = pre.chat_metadata
         /\ ~pre.settings.enableCharacterLocks =>
                settings.characterLocks = pre.settings.characterLocks
         /\ ~pre.settings.enableGroupLocks =>
                settings.groupLocks = pre.settings.groupLocks

\* C3: an activatePreset call from live set C to target book list T issues
\* unload requests for exactly C \ T and load requests for exactly T \ C; when
\* all of them succeed the live set ends equal to T, and presetName ends equal
\* to the target's name ('' for null).
C3_DeltaActivation ==
    log.act.activated =>
        /\ log.act.unload = pre.world_info \ log.act.targetBooks
        /\ log.act.load = log.act.targetBooks \ pre.world_info
        /\ log.act.failing = {} => world_info = log.act.targetBooks
        /\ settings.presetName = log.act.target

\* C3 witness: live [b1,b2], activate B = [b2,b3]: unload [b1], load [b3].
C3_Witness ==
    /\ log.act.activated
    /\ log.act.failing = {}
    /\ pre.world_info = {"b1", "b2"}
    /\ log.act.target = "B"
    /\ log.act.unload = {"b1"}
    /\ log.act.load = {"b3"}
    /\ world_info = {"b2", "b3"}
    /\ settings.presetName = "B"

LocksUnchanged ==
    /\ chat_metadata = pre.chat_metadata
    /\ settings.characterLocks = pre.settings.characterLocks
    /\ settings.groupLocks = pre.settings.groupLocks

\* activatePreset ran without skipLockCheck while a lock was active that
\* differs from the target.
ConflictingActivation ==
    /\ log.act.activated
    /\ ~log.act.skip
    /\ TableLock(PreWorld, pre.context) # NULL
    /\ TableLock(PreWorld, pre.context) # log.act.target

\* C4: the conflict check is advisory: an activation that conflicts with the
\* active lock prompts and then completes with the requested target whatever
\* the answer; when the prompt is rejected no lock changes.
C4_ConflictCheckAdvisory ==
    ConflictingActivation =>
        /\ log.act.prompted
        /\ settings.presetName = log.act.target
        /\ world_info = log.act.targetBooks
        /\ ~log.act.answer => LocksUnchanged

\* C4 witness: a rejected prompt, after which presetName is the new target.
C4_Witness ==
    /\ ConflictingActivation
    /\ log.act.prompted
    /\ ~log.act.answer
    /\ log.act.target = "B"
    /\ pre.settings.presetName = "A"
    /\ settings.presetName = "B"

\* C5: accepting the prompt for target name T overwrites with T exactly the
\* locks already set in the current context (chat lock; character lock when
\* not a group chat; group lock when a group chat); locks not set stay unset
\* and locks of other chats, characters and groups are unchanged.
C5_RetargetOnlyEngaged ==
    Retargeted =>
        LET T == log.act.target
            c == pre.context
            retargeted(old) == IF old # NULL /\ T # NULL THEN T ELSE old
        IN /\ \A k \in DOMAIN chat_metadata :
                 T # NULL \/ pre.chat_metadata[k] = NULL \/ k # host.file_name =>
                    chat_metadata[k] =
                       IF k = host.file_name THEN retargeted(pre.chat_metadata[k])
                       ELSE pre.chat_metadata[k]
           /\ \A k \in Chars :
                 T # NULL \/ pre.settings.characterLocks[k] = NULL
                    \/ k # c.characterName \/ c.isGroupChat =>
                    settings.characterLocks[k] =
                       IF ~c.isGroupChat /\ k = c.characterName
                       THEN retargeted(pre.settings.characterLocks[k])
                       ELSE pre.settings.characterLocks[k]
           /\ \A k \in Groups :
                 T # NULL \/ pre.settings.groupLocks[k] = NULL
                    \/ k # c.groupId \/ ~c.isGroupChat =>
                    settings.groupLocks[k] =
                       IF c.isGroupChat /\ k = c.groupId
                       THEN retargeted(pre.settings.groupLocks[k])
                       ELSE pre.settings.groupLocks[k]

\* C5 witness: character lock set, chat lock not set; after accepting for "B"
\* the character lock is "B" and there is still no chat lock.
C5_Witness ==
    /\ Retargeted
    /\ log.act.target = "B"
    /\ ~pre.context.isGroupChat
    /\ pre.chat_metadata[host.file_name] = NULL
    /\ pre.settings.characterLocks["c1"] = "A"
    /\ settings.characterLocks["c1"] = "B"
    /\ chat_metadata[host.file_name] = NULL
    /\ settings.groupLocks = pre.settings.groupLocks

\* The preset presetName named when the last handler started ("selected").
PreSelected == FindByName(pre.settings.presetList, pre.settings.presetName)

\* The last handler was a confirmed delete of an existing selected preset.
ConfirmedDelete == log.op = "delete" /\ log.act.activated /\ PreSelected # 0

\* C6: after a confirmed delete of the selected preset P no character or group
\* lock, nor the chat lock, nor globalDefaultPreset equals P's name; P is gone
\* from the registry (the other presets stay, in order); presetName is '' and
\* the live book set is empty; no lock-conflict prompt was shown.
C6_DeleteCascade ==
    ConfirmedDelete =>
        LET P == pre.settings.presetName
            old == pre.settings.presetList
            new == settings.presetList
        IN /\ \A c \in Chars : settings.characterLocks[c] # P
           /\ \A g \in Groups : settings.groupLocks[g] # P
           /\ chat_metadata[host.file_name] # P
           /\ settings.globalDefaultPreset # P
           /\ Len(new) = Len(old) - 1
           /\ \A k \in 1..Len(new) :
                 new[k] = IF k < PreSelected THEN old[k] ELSE old[k + 1]
           /\ settings.presetName = NULL
           /\ world_info = {}
           /\ ~log.act.prompted

\* C6 witness: P = "A" was referenced by the character lock, the group lock,
\* the chat lock and the global default at once, with books live.
C6_Witness ==
    /\ ConfirmedDelete
    /\ pre.settings.presetName = "A"
    /\ pre.settings.characterLocks["c1"] = "A"
    /\ pre.settings.groupLocks["g1"] = "A"
    /\ pre.chat_metadata[host.file_name] = "A"
    /\ pre.settings.globalDefaultPreset = "A"
    /\ pre.world_info # {}
    /\ settings.characterLocks["c2"] = "B"
    /\ world_info = {}

\* The last handler renamed the existing selected preset to log.arg.
Renamed ==
    /\ log.op = "rename"
    /\ log.arg # NULL
    /\ log.arg # pre.settings.presetName
    /\ PreSelected # 0

\* C7: renaming the selected preset from A to B changes to B every character
\* lock, group lock, the chat lock and the global default that equal A, leaves
\* references to other names unchanged, renames exactly the selected preset
\* and sets presetName to B.
C7_RenameCascade ==
    Renamed =>
        LET A == pre.settings.presetName
            B == log.arg
            moved(v) == IF v = A THEN B ELSE v
            old == pre.settings.presetList
            new == settings.presetList
        IN /\ \A c \in Chars :
                 settings.characterLocks[c] = moved(pre.settings.characterLocks[c])
           /\ \A g \in Groups :
                 settings.groupLocks[g] = moved(pre.settings.groupLocks[g])
           /\ chat_metadata[host.file_name] = moved(pre.chat_metadata[host.file_name])
           /\ \A k \in DOMAIN chat_metadata :
                 k # host.file_name => chat_metadata[k] = pre.chat_metadata[k]
           /\ settings.globalDefaultPreset = moved(pre.settings.globalDefaultPreset)
           /\ Len(new) = Len(old)
           /\ \A k \in 1..Len(new) :
                 /\ new[k].worldList = old[k].worldList
                 /\ new[k].name = IF k = PreSelected THEN B ELSE old[k].name
           /\ settings.presetName = B

\* C7 witness: "A" renamed to "a" while the chat and group locks name "B".
C7_Witness ==
    /\ Renamed
    /\ pre.settings.presetName = "A"
    /\ log.arg = "a"
    /\ pre.settings.characterLocks["c1"] = "A"
    /\ settings.characterLocks["c1"] = "a"
    /\ pre.chat_metadata[host.file_name] = "B"
    /\ chat_metadata[host.file_name] = "B"
    /\ settings.groupLocks["g1"] = "B"
    /\ settings.presetList[1].name = "a"
    /\ settings.presetList[2].name = "B"

\* No preset of the registry the handler started from matches `name` when
\* letter case is ignored.
NoMatch(name) ==
    \A i \in 1..Len(pre.settings.presetList) :
        toLowerCase(pre.settings.presetList[i].name) # toLowerCase(name)

Deactivated == settings.presetName = NULL /\ world_info = {}

\* C8: /wipreset with an empty name deactivates (every active book unloaded,
\* presetName ''); with a name it activates the preset matching it
\* case-insensitively, and otherwise only warns.
C8_WipresetCommand ==
    log.op = "wipreset" =>
        /\ log.arg = NULL => Deactivated
        /\ log.arg # NULL /\ ~NoMatch(log.arg) =>
              /\ log.act.activated
              /\ toLowerCase(log.act.target) = toLowerCase(log.arg)
              /\ settings.presetName = log.act.target
        /\ log.arg # NULL /\ NoMatch(log.arg) => log.warned /\ ~log.act.activated

\* Registry, selection, locks, global default and live books are as the last
\* handler found them.
NothingChanged ==
    /\ settings = pre.settings
    /\ chat_metadata = pre.chat_metadata
    /\ world_info = pre.world_info

\* The last handler was activatePresetByName(log.arg).
ByNameCall == log.op = "wipreset" \/ (log.op = "select" /\ log.arg # NULL)

\* C9: activatePresetByName with a name matching no preset case-insensitively
\* only warns: live books, presetName, locks and registry are unchanged.
C9_UnknownNameNoEffect ==
    ByNameCall /\ NoMatch(log.arg) =>
        /\ NothingChanged
        /\ log.warned
        /\ ~log.act.activated

\* C9 witness: "Z" typed while "A" is active with books live.
C9_Witness ==
    /\ log.op = "wipreset"
    /\ log.arg = "Z"
    /\ log.warned
    /\ settings.presetName = "A"
    /\ world_info = {"b1", "b2"}

\* C10: checkAndApplyLocks activates the global default only when no lock
\* applies and no preset is selected; with a preset selected and no lock
\* applying, the selection is kept.
C10_DefaultIsFallbackOnly ==
    log.op = "checkAndApplyLocks" =>
        /\ log.act.activated /\ log.act.target # TableLock(PreWorld, pre.context) =>
              /\ TableLock(PreWorld, pre.context) = NULL
              /\ pre.settings.presetName = NULL
        /\ TableLock(PreWorld, pre.context) = NULL /\ pre.settings.presetName # NULL =>
              settings.presetName = pre.settings.presetName

-----------------------------------------------------------------------------
\* The last handler was a checkAndApplyLocks iteration that found the context
\* identity available, no lock applying, no preset selected and the global
\* default naming a preset of the registry.
DefaultCase ==
    /\ log.op = "checkAndApplyLocks"
    /\ pre.context.characterName # NULL \/ pre.context.chatId # NULL
    /\ TableLock(PreWorld, pre.context) = NULL
    /\ pre.settings.presetName = NULL
    /\ pre.settings.globalDefaultPreset \in RegistryNames(pre.settings)

\* C11: an iteration of checkAndApplyLocks that calls activatePreset ends the
\* invocation (no retry is pending, so no second call follows); in the
\* default case it activates the global default and presetName is its name.
C11_ActivatesAtMostOnce ==
    /\ log.op = "checkAndApplyLocks" /\ log.act.activated =>
           checkPc = "idle" /\ attempts = 0
    /\ DefaultCase =>
           /\ log.act.activated
           /\ log.act.target = pre.settings.globalDefaultPreset
           /\ checkPc = "idle" /\ attempts = 0
           /\ settings.presetName = pre.settings.globalDefaultPreset

\* C11 witness: default "B" applied to character c1 with nothing selected.
C11_Witness ==
    /\ DefaultCase
    /\ log.act.target = "B"
    /\ settings.presetName = "B"
    /\ world_info = {"b2", "b3"}
    /\ pre.world_info # world_info

-----------------------------------------------------------------------------
\* The last handler was a checkAndApplyLocks iteration for a context whose
\* resolved lock names no preset of the registry.
MissingLockedPreset ==
    /\ log.op = "checkAndApplyLocks"
    /\ TableLock(PreWorld, pre.context) # NULL
    /\ TableLock(PreWorld, pre.context) \notin RegistryNames(pre.settings)

\* C12: when the resolved lock names a preset missing from the registry,
\* checkAndApplyLocks activates nothing, does not retry, shows no prompt and
\* leaves live books, presetName and every lock as they were.
C12_MissingLockedPresetFailsSoft ==
    MissingLockedPreset =>
        /\ ~log.act.activated
        /\ ~log.act.prompted
        /\ checkPc = "idle"
        /\ NothingChanged

-----------------------------------------------------------------------------
\* What a checkAndApplyLocks iteration does in world W apart from toasts:
\* the activatePreset call it makes (with its prompt and resulting world),
\* a retry, or a plain return.
CheckEffect(W, context, a, f) ==
    LET dec == checkDecision(W, context)
        r == activatePreset(W, context, dec.preset, FALSE, a, f)
    IN IF dec.kind \in {"locked", "default"}
       THEN [effect |-> "activate", target |-> dec.preset.name,
             prompted |-> r.prompted, world_info |-> r.W.world_info,
             presetName |-> r.W.settings.presetName,
             characterLocks |-> r.W.settings.characterLocks,
             groupLocks |-> r.W.settings.groupLocks,
             chat_metadata |-> r.W.chat_metadata]
       ELSE [effect |-> IF dec.kind = "wait" THEN "retry" ELSE "return",
             target |-> NULL, prompted |-> FALSE, world_info |-> W.world_info,
             presetName |-> W.settings.presetName,
             characterLocks |-> W.settings.characterLocks,
             groupLocks |-> W.settings.groupLocks,
             chat_metadata |-> W.chat_metadata]

WithNotifications(W, b) == [W EXCEPT !.settings.showLockNotifications = b]

\* C13: showLockNotifications gates notifications only: started from the same
\* state with the same dialog answers, the checkAndApplyLocks iteration just
\* run has the same effect (activation, prompt, live books, presetName, locks,
\* retry) whether the flag is on or off.
C13_NotificationsOnlyNotify ==
    log.op = "checkAndApplyLocks" =>
        \A a \in BOOLEAN :
            CheckEffect(WithNotifications(PreWorld, TRUE), pre.context, a, {})
              = CheckEffect(WithNotifications(PreWorld, FALSE), pre.context, a, {})

-----------------------------------------------------------------------------
\* A context event was just handled, the lock resolved for the new context is
\* L, a preset of the registry, and no further event or user action follows.
Entered(L) ==
    /\ log.op = "contextEvent"
    /\ ops = MaxOps
    /\ TableLock(World, getCurrentContext) = L
    /\ L \in RegistryNames(settings)

\* checkAndApplyLocks has applied L without a prompt.
Applied(L) ==
    /\ log.op = "checkAndApplyLocks"
    /\ log.act.activated /\ log.act.target = L /\ ~log.act.prompted
    /\ settings.presetName = L
    /\ world_info = PresetAt(settings.presetList,
                             FindByName(settings.presetList, L)).worldList

\* C14: after a character-changed, chat-changed or chat-loaded event with a
\* resolved lock naming an existing preset, and nothing else happening,
\* eventually that preset is selected and its books are the live set, with no
\* lock-conflict prompt shown.
C14_LocksAppliedOnEntry == \A L \in PresetNames : Entered(L) ~> Applied(L)

\* C14 witness: the character lock "B" of c1 applied over live books [b1,b2].
C14_Witness ==
    /\ Applied("B")
    /\ pre.world_info = {"b1", "b2"}
    /\ pre.settings.presetName = "A"
    /\ pre.context.characterName = "c1"

-----------------------------------------------------------------------------
\* No two presets of the list have names equal up to case.
UniqueNames(list) ==
    \A i, j \in 1..Len(list) :
        toLowerCase(list[i].name) = toLowerCase(list[j].name) => i = j

\* C15: starting from unique names, after any sequence of create, update,
\* rename, delete and import at most one preset of the registry has any given
\* name, compared case-insensitively.
C15_UniqueNames == UniqueNames(settings.presetList)

-----------------------------------------------------------------------------
\* Step st of an import overwrote, with a file that carries a book list, the
\* preset at position i of the registry it found.
OverwroteAt(st, i) ==
    /\ st.kind = "overwrite"
    /\ st.file.hasWorldList
    /\ i \in 1..Len(st.before.settings.presetList)
    /\ toLowerCase(st.before.settings.presetList[i].name) = toLowerCase(st.name)
    /\ st.after.settings.presetList[i].worldList = st.file.worldList

\* Apart from the book list at position i the registry is as before.
SameRegistryExcept(st, i) ==
    LET old == st.before.settings.presetList
        new == st.after.settings.presetList
    IN /\ Len(new) = Len(old)
       /\ \A k \in 1..Len(old) : new[k].name = old[k].name
       /\ \A k \in 1..Len(old) : k # i => new[k] = old[k]

\* C16: an import that collides with an existing preset and is answered with
\* overwrite replaces that preset's book list in place: same length, same
\* names at the same positions, no other preset changed.
C16_OverwriteInPlace ==
    log.op = "import" =>
        \A k \in 1..Len(log.arg) :
            log.arg[k].kind = "overwrite" /\ log.arg[k].file.hasWorldList =>
                \E i \in 1..Len(log.arg[k].before.settings.presetList) :
                    OverwroteAt(log.arg[k], i) /\ SameRegistryExcept(log.arg[k], i)

\* C16 witness: file "a" = [b1] overwrites "A" = [b1,b2], first of two presets.
C16_Witness ==
    /\ log.op = "import"
    /\ log.arg[1].file = Fa
    /\ OverwroteAt(log.arg[1], 1)
    /\ log.arg[1].before.settings.presetList = <<PA, PB>>
    /\ settings.presetList = <<Preset("A", {"b1"}), PB>>

-----------------------------------------------------------------------------
\* The file does not parse or lacks a required field (name, worldList).
Malformed(file) == ~file.parses \/ file.name = NULL \/ ~file.hasWorldList

\* Registry, locks and global default of world V are those of world W.
SameConfiguration(V, W) ==
    /\ V.settings.presetList = W.settings.presetList
    /\ V.settings.characterLocks = W.settings.characterLocks
    /\ V.settings.groupLocks = W.settings.groupLocks
    /\ V.chat_metadata = W.chat_metadata
    /\ V.settings.globalDefaultPreset = W.settings.globalDefaultPreset

\* C17: in a multi-file import the files are processed one after another
\* (each starts from what the previous one left); a malformed file raises no
\* exception to the caller, leaves registry, locks and global default as they
\* were before it, is reported by an error notification, and the files after
\* it are still processed.
C17_ImportErrorsAreContained ==
    log.op = "import" =>
        /\ ~log.threw
        /\ Len(log.arg) \in {1, 2}
        /\ \A k \in 1..Len(log.arg) :
              /\ k > 1 => log.arg[k].before = log.arg[k - 1].after
              /\ Malformed(log.arg[k].file) =>
                    /\ log.arg[k].error
                    /\ SameConfiguration(log.arg[k].after, log.arg[k].before)

-----------------------------------------------------------------------------
(* C18: the book-rename observer proposes a rename exactly when its diff   *)
(* has one added and one removed name and a preset lists the removed one.  *)

\* The last handler was an observer callback that got past its throttle and
\* so compared the list it saw last with the new one.
Diffed == log.op = "booksChanged" /\ ~log.arg.throttled

RenameShaped ==
    /\ Cardinality(log.arg.newNames \ log.arg.bookNames) = 1
    /\ Cardinality(log.arg.bookNames \ log.arg.newNames) = 1

RemovedIsListed ==
    \E i \in 1..Len(pre.settings.presetList) :
        pre.settings.presetList[i].worldList \cap (log.arg.bookNames \ log.arg.newNames) # {}

\* C18: whenever the book-rename observer compares the previously observed
\* book names with the new ones, it shows its rename confirmation if and only
\* if exactly one name was added, exactly one was removed and some preset's
\* book list contains the removed name; for every other shape of the diff it
\* proposes nothing and changes no preset; a throttled callback proposes
\* nothing and changes nothing either.
C18_RenameProposedIffSingleSwap ==
    /\ Diffed => /\ log.arg.proposed <=> (RenameShaped /\ RemovedIsListed)
                 /\ ~RenameShaped => settings = pre.settings
                 /\ bookNames = log.arg.newNames
    /\ log.op = "booksChanged" /\ log.arg.throttled =>
          /\ ~log.arg.proposed
          /\ settings = pre.settings

\* A rename of b1 is noticed while a preset lists b1, the user confirms, and
\* the preset now lists the new name instead.
C18_Witness ==
    /\ Diffed
    /\ RenameShaped
    /\ log.arg.proposed
    /\ log.arg.result
    /\ log.arg.oldName = "b1"
    /\ \E i \in 1..Len(settings.presetList) :
          /\ "b1" \in pre.settings.presetList[i].worldList
          /\ settings.presetList[i].worldList =
                (pre.settings.presetList[i].worldList \ {"b1"}) \cup {log.arg.newName}

\* Further cases the claim names: only a removal, only an addition, several of
\* either, and a single swap of a book no preset lists.
C18_WitnessOnlyRemoval ==
    /\ Diffed
    /\ log.arg.newNames \ log.arg.bookNames = {}
    /\ Cardinality(log.arg.bookNames \ log.arg.newNames) = 1
    /\ RemovedIsListed

C18_WitnessUnlistedSwap == Diffed /\ RenameShaped /\ ~RemovedIsListed

-----------------------------------------------------------------------------
(* C19: activating the same preset a second time is a no-op on books.      *)

\* The last handler called activatePreset; SecondCall is the same call made
\* again from the state the first one left, with the user's answer
\* shouldUpdate to a conflict prompt and the books of `failing` rejected.
SecondCall(shouldUpdate, failing) ==
    activatePreset(World, getCurrentContext,
                   Preset(log.act.target, log.act.targetBooks),
                   log.act.skip, shouldUpdate, failing)

SecondCallIsNoOp ==
    \A shouldUpdate \in BOOLEAN, failing \in FailSets :
        LET r == SecondCall(shouldUpdate, failing)
        IN /\ r.unload = {}
           /\ r.load = {}
           /\ r.W.world_info = world_info
           /\ r.W.settings.presetName = settings.presetName

\* Every book request of the first call took effect.
FirstCallApplied == world_info = log.act.targetBooks

-----------------------------------------------------------------------------
(* C20: overlapping activatePreset calls end in the state of the last one. *)

\* Every call has completed, and one of them was started while another was
\* suspended.
OverlappedAndDone ==
    /\ log.op = "activate"
    /\ log.arg.overlapped
    /\ calls = <<>>

LastRequested == log.arg.requested[Len(log.arg.requested)]

\* C20: if an activatePreset call was started while another one was suspended
\* at its conflict prompt or at a book request, then once all calls have
\* completed presetName is the name of the preset requested last and the live
\* book set equals that preset's book list.
C20_LastRequestWins ==
    OverlappedAndDone =>
        /\ settings.presetName = LastRequested.name
        /\ world_info = LastRequested.worldList

\* Calls that do not overlap do end in the state of the last one.
C20_SequentialCallsAgree ==
    log.op = "activate" /\ ~log.arg.overlapped /\ calls = <<>> =>
        /\ settings.presetName = LastRequested.name
        /\ world_info = LastRequested.worldList

\* Two overlapping calls, both completed.
C20_Witness == OverlappedAndDone /\ Len(log.arg.requested) >= 2

-----------------------------------------------------------------------------
(* C21: a preset without engine settings never touches the engine          *)
(* configuration.                                                          *)

\* The preset the last activatePreset call was given, as it was when the
\* handler started.
TargetBefore ==
    PresetAt(pre.settings.presetList, FindByName(pre.settings.presetList, log.act.target))

\* Activating a preset whose worldInfoSettings is null applies no patch.
NullSettingsNeverPatched ==
    log.act.activated /\ log.op \in {"select", "restore"}
        /\ TargetBefore.worldInfoSettings = NULL
    => ~log.act.patched /\ engine = pre.engine

\* A preset whose worldInfoSettings is null still has none after the
\* extension was initialised again.
NullSettingsSurviveInit ==
    log.op = "init" /\ Len(pre.settings.presetList) = Len(settings.presetList) =>
        \A i \in 1..Len(settings.presetList) :
            pre.settings.presetList[i].worldInfoSettings = NULL
                => settings.presetList[i].worldInfoSettings = NULL

\* C21: a preset whose worldInfoSettings is null never causes the
\* engine-configuration patch to be applied when it is activated, in any state
\* after its creation, the states after the extension was initialised again
\* included: it is not patched while its settings are null, and its settings
\* stay null over an initialisation.
C21_NullSettingsNeverPatched ==
    /\ NullSettingsNeverPatched
    /\ NullSettingsSurviveInit

\* A preset without settings was activated.
C21_Witness ==
    /\ log.act.activated
    /\ log.op = "select"
    /\ log.act.target = "Z"
    /\ TargetBefore.worldInfoSettings = NULL

-----------------------------------------------------------------------------
(* C22: the two checkboxes of the lock dialog are applied independently.   *)

StoredContextLock(W, c) ==
    IF c.isGroupChat THEN StoredGroupLock(W, c) ELSE StoredCharacterLock(W, c)

\* The lock dialog was confirmed.
LockDialogConfirmed == log.op = "lockSettings" /\ log.arg.result

\* The dialog shows a box checked iff its lock is set; the user left the box
\* as it was shown.
ChatBoxUntouched == log.arg.chatLockChecked <=> StoredChatLock(PreWorld) # NULL
ContextBoxUntouched ==
    log.arg.contextLockChecked <=> StoredContextLock(PreWorld, pre.context) # NULL

UncheckedChatOnly ==
    /\ LockDialogConfirmed
    /\ StoredChatLock(PreWorld) # NULL
    /\ ~log.arg.chatLockChecked
    /\ ContextBoxUntouched

UncheckedContextOnly ==
    /\ LockDialogConfirmed
    /\ StoredContextLock(PreWorld, pre.context) # NULL
    /\ ~log.arg.contextLockChecked
    /\ ChatBoxUntouched

\* C22: when the lock dialog is confirmed with only 'Lock to chat' unchecked,
\* the chat lock is removed and the current character's (or group's) lock
\* keeps the value it had before the dialog; with only the character/group
\* box unchecked, the chat lock keeps the value it had; whatever preset is
\* selected.
C22_CheckboxesIndependent ==
    /\ UncheckedChatOnly =>
          /\ StoredChatLock(World) = NULL
          /\ StoredContextLock(World, pre.context) = StoredContextLock(PreWorld, pre.context)
    /\ UncheckedContextOnly =>
          /\ StoredContextLock(World, pre.context) = NULL
          /\ StoredChatLock(World) = StoredChatLock(PreWorld)

\* The same, for the case that the lock that is kept names the selected preset.
C22_IndependentForSelectedPreset ==
    /\ UncheckedChatOnly
          /\ StoredContextLock(PreWorld, pre.context) \in {NULL, pre.settings.presetName} =>
          /\ StoredChatLock(World) = NULL
          /\ StoredContextLock(World, pre.context) = StoredContextLock(PreWorld, pre.context)
    /\ UncheckedContextOnly
          /\ StoredChatLock(PreWorld) = pre.settings.presetName =>
          /\ StoredContextLock(World, pre.context) = NULL
          /\ StoredChatLock(World) = StoredChatLock(PreWorld)

\* 'Lock to chat' was unchecked while the character's lock named a preset
\* other than the selected one.
C22_Witness ==
    /\ UncheckedChatOnly
    /\ StoredContextLock(PreWorld, pre.context) \notin {NULL, pre.settings.presetName}

-----------------------------------------------------------------------------
(* C23: preset names are compared without regard to letter case in every   *)
(* lookup by name.                                                         *)

\* `name` names a registered preset of the state the handler started from, up
\* to letter case.
NamesIgnoringCase(name) ==
    name # NULL /\ FindIgnoreCase(pre.settings.presetList, name) # 0

SameIgnoringCase(a, b) == toLowerCase(a) = toLowerCase(b)

\* activatePresetByName finds the preset.
ByNameIgnoresCase ==
    log.op = "wipreset" /\ NamesIgnoringCase(log.arg) =>
        log.act.activated /\ SameIgnoringCase(log.act.target, log.arg)

\* checkAndApplyLocks finds the locked preset.
LockIgnoresCase ==
    log.op = "checkAndApplyLocks" /\ NamesIgnoringCase(TableLock(PreWorld, pre.context)) =>
        /\ log.act.activated
        /\ SameIgnoringCase(log.act.target, TableLock(PreWorld, pre.context))

\* checkAndApplyLocks finds the global default when no lock applies and the
\* context is known.
DefaultIgnoresCase ==
    /\ log.op = "checkAndApplyLocks"
    /\ TableLock(PreWorld, pre.context) = NULL
    /\ pre.context.characterName # NULL \/ pre.context.chatId # NULL
    /\ NamesIgnoringCase(pre.settings.globalDefaultPreset)
    => /\ log.act.activated
       /\ SameIgnoringCase(log.act.target, pre.settings.globalDefaultPreset)

\* The Settings.preset getter finds the selected preset (btnRestore activates it).
SelectionIgnoresCase ==
    log.op = "restore" /\ NamesIgnoringCase(pre.settings.presetName) =>
        /\ log.act.activated
        /\ SameIgnoringCase(log.act.target, pre.settings.presetName)

\* C23: resolving a lock value, resolving globalDefaultPreset, resolving the
\* current selection and activating by name each find a registered preset
\* whose name differs from the looked-up name only in letter case.
C23_LookupsIgnoreCase ==
    /\ ByNameIgnoresCase
    /\ LockIgnoresCase
    /\ DefaultIgnoresCase
    /\ SelectionIgnoresCase

\* A lock names a registered preset in another letter case when
\* checkAndApplyLocks runs.
C23_Witness ==
    /\ log.op = "checkAndApplyLocks"
    /\ NamesIgnoringCase(TableLock(PreWorld, pre.context))
    /\ FindByName(pre.settings.presetList, TableLock(PreWorld, pre.context)) = 0

-----------------------------------------------------------------------------
(* C24: export, delete, import is a round trip.                            *)

\* The selected preset P was exported from the state the confirmed delete
\* started in.
Exported == exportPayload(PreWorld)

\* Every offer of the import is accepted: the name prompt is left at the
\* name it proposes (data.name), the confirmations are answered with yes.
AcceptAll ==
    [typed |-> Exported.name, overwrite |-> TRUE, doImport |-> TRUE, shouldUpdate |-> TRUE]

\* The world after importing that payload into the state the delete left.
Reimported == importSinglePreset(World, getCurrentContext, Exported, AcceptAll, {}).W
ExportedPreset == pre.settings.presetList[PreSelected]

\* C24: exporting the selected preset P, deleting P and importing the payload
\* with every offer accepted gives a registry with a preset of P's name, book
\* list and engine settings, restores every character lock and group lock that
\* pointed to P and the global default if P was it; the payload holds no lock
\* that pointed to another preset.
C24_ExportImportRoundTrip ==
    ConfirmedDelete =>
        /\ \E i \in 1..Len(Reimported.settings.presetList) :
              Reimported.settings.presetList[i] = ExportedPreset
        /\ \A c \in Chars :
              pre.settings.characterLocks[c] = ExportedPreset.name
                  => Reimported.settings.characterLocks[c] = ExportedPreset.name
        /\ \A g \in Groups :
              pre.settings.groupLocks[g] = ExportedPreset.name
                  => Reimported.settings.groupLocks[g] = ExportedPreset.name
        /\ pre.settings.globalDefaultPreset = ExportedPreset.name
              => Reimported.settings.globalDefaultPreset = ExportedPreset.name
        /\ \A c \in Chars : Exported.characterLocks[c] \in {NULL, ExportedPreset.name}
        /\ \A g \in Groups : Exported.groupLocks[g] \in {NULL, ExportedPreset.name}

\* No preset left by the delete has P's name in another case.
NameIsFree == FindIgnoreCase(settings.presetList, ExportedPreset.name) = 0

\* The round trip for a preset whose name is free after the delete.
C24_RoundTripWhenNameIsFree ==
    ConfirmedDelete /\ NameIsFree =>
        /\ \E i \in 1..Len(Reimported.settings.presetList) :
              Reimported.settings.presetList[i] = ExportedPreset
        /\ \A c \in Chars :
              pre.settings.characterLocks[c] = ExportedPreset.name
                  => Reimported.settings.characterLocks[c] = ExportedPreset.name
        /\ \A g \in Groups :
              pre.settings.groupLocks[g] = ExportedPreset.name
                  => Reimported.settings.groupLocks[g] = ExportedPreset.name
        /\ pre.settings.globalDefaultPreset = ExportedPreset.name
              => Reimported.settings.globalDefaultPreset = ExportedPreset.name

\* P was deleted while a preset with P's name in another case stayed; P was
\* locked to a character and was the global default.
C24_WitnessCaseVariant ==
    /\ ConfirmedDelete
    /\ ~NameIsFree
    /\ FindByName(settings.presetList, ExportedPreset.name) = 0
    /\ \E c \in Chars : pre.settings.characterLocks[c] = ExportedPreset.name
    /\ pre.settings.globalDefaultPreset = ExportedPreset.name

\* P was the global default and was locked to a character and to a group, and
\* another preset was locked too; the delete removed all of P's references.
C24_Witness ==
    /\ ConfirmedDelete
    /\ pre.settings.globalDefaultPreset = ExportedPreset.name
    /\ \E c \in Chars : pre.settings.characterLocks[c] = ExportedPreset.name
    /\ \E g \in Groups : pre.settings.groupLocks[g] = ExportedPreset.name
    /\ \E c \in Chars : pre.settings.characterLocks[c] \notin {NULL, ExportedPreset.name}
    /\ \A c \in Chars : settings.characterLocks[c] # ExportedPreset.name
    /\ settings.globalDefaultPreset = NULL
    /\ FindByName(settings.presetList, ExportedPreset.name) = 0

-----------------------------------------------------------------------------
(* C25: within one activatePreset call the unloads come before the loads.  *)

\* The k-th request call c issued is a load.
IsLoad(c, k) == c.issued[k].kind = "load"

\* C25: in every activatePreset call, when a load request has been issued no
\* unload of that call is still pending or still to be issued, and no unload
\* request follows a load request.
C25_UnloadsBeforeLoads ==
    \A i \in 1..Len(calls) :
        \A k \in 1..Len(calls[i].issued) :
            IsLoad(calls[i], k) =>
                /\ calls[i].unload = {}
                /\ \A j \in k..Len(calls[i].issued) : IsLoad(calls[i], j)

\* A call that had a book to unload and a book to load waits for its load
\* request, the unload having completed.
C25_Witness ==
    \E i \in 1..Len(calls) :
        /\ Len(calls[i].issued) >= 2
        /\ ~IsLoad(calls[i], 1)
        /\ IsLoad(calls[i], Len(calls[i].issued))
        /\ calls[i].unload = {}

-----------------------------------------------------------------------------
(* C26: book requests are best effort.                                     *)

\* The last handler was one activatePreset call (from the selector or
\* btnRestore) in which the request for some book failed.
RequestFailed ==
    /\ log.op \in {"select", "restore"}
    /\ log.act.activated
    /\ log.act.failing # {}

\* C26: when the request for one book fails, activatePreset still issues the
\* request for every other book of the delta, does not raise to its caller
\* and still commits presetName to the target's name.
C26_BookRequestsBestEffort ==
    RequestFailed =>
        /\ ~log.act.raised
        /\ log.act.unload = pre.world_info \ log.act.targetBooks
        /\ log.act.load = log.act.targetBooks \ pre.world_info
        /\ settings.presetName = log.act.target

\* The same for requests that fail without executeSlashCommands rejecting.
C26_BestEffortWhenNotRejected ==
    RequestFailed /\ ~log.act.raised =>
        /\ log.act.unload = pre.world_info \ log.act.targetBooks
        /\ log.act.load = log.act.targetBooks \ pre.world_info
        /\ settings.presetName = log.act.target

\* A request failed in a call that had more than one request to issue.
C26_Witness ==
    /\ RequestFailed
    /\ Cardinality((pre.world_info \ log.act.targetBooks)
                   \cup (log.act.targetBooks \ pre.world_info)) >= 2

-----------------------------------------------------------------------------
(* C27: a failing engine-settings patch is not fatal.                      *)

\* C27: when the engine-settings patch of an activatePreset call fails (keys
\* failing verification, or the collaborator throwing), the call does not
\* raise, the book requests it made keep their effect and presetName is the
\* target's name.
C27_PatchFailureNotFatal ==
    log.op \in {"select", "restore"} /\ log.act.patchFailed =>
        /\ ~log.act.raised
        /\ world_info = log.act.targetBooks
        /\ settings.presetName = log.act.target

\* The patch failed in a call that unloaded and loaded books.
C27_Witness ==
    /\ log.op = "select"
    /\ log.act.patchFailed
    /\ log.act.unload # {}
    /\ log.act.load # {}
    /\ engine = "mixed"

-----------------------------------------------------------------------------
(* C28: checkAndApplyLocks polls for the context at most maxAttempts times. *)

\* Neither a character name nor a chat id was resolvable when the last
\* handler started.
IdentityMissing == pre.context.characterName = NULL /\ pre.context.chatId = NULL

SameState ==
    /\ settings = pre.settings
    /\ chat_metadata = pre.chat_metadata
    /\ world_info = pre.world_info
    /\ engine = pre.engine

\* An iteration ends in the wait only while the identity is missing, never
\* more than maxAttempts times, and neither a wait nor giving up activates,
\* changes or notifies anything; an iteration that finds the identity ends
\* the polling.
PollingIsBounded ==
    /\ attempts <= maxAttempts
    /\ log.op = "checkAndApplyLocks" /\ checkPc = "waiting" =>
          /\ IdentityMissing
          /\ ~log.act.activated /\ ~log.warned /\ SameState
    /\ log.op = "checkTimedOut" =>
          /\ checkPc = "idle"
          /\ ~log.act.activated /\ ~log.warned /\ SameState
    /\ log.op = "checkAndApplyLocks" /\ ~IdentityMissing => checkPc = "idle"

\* C28: checkAndApplyLocks always terminates: while neither a character name
\* nor a chat id is resolvable it waits and checks again at most maxAttempts
\* times, then gives up without activating a preset, changing any state or
\* notifying the user; once the identity is available it stops polling.
C28_PollingTerminates ==
    /\ []PollingIsBounded
    /\ (checkPc = "waiting") ~> (checkPc = "idle")

\* The loop gave up after maxAttempts waits.
C28_Witness ==
    /\ log.op = "checkTimedOut"
    /\ IdentityMissing
    /\ checkPc = "idle"

-----------------------------------------------------------------------------
(* C29: a confirmed rename touches only the old name of the listed presets. *)

RenameConfirmed == log.op = "renameAnswered" /\ log.arg.result

\* Every element but oldName stayed and nothing but newName came in.
OnlyOldNameReplaced(before, after, d) ==
    /\ d.oldName \notin after
    /\ d.newName \in after
    /\ before \ {d.oldName} \subseteq after
    /\ after \subseteq before \cup {d.newName}

\* Every preset still held oldName when the popup was answered.
ListedStillIncludeOldName ==
    \A i \in log.arg.dialog.presets :
        log.arg.dialog.oldName \in pre.settings.presetList[i].worldList

\* C29: when the rename popup is confirmed, every preset that held the old
\* name when the diff was computed has it replaced by the new name with its
\* other elements unchanged, and every other preset is unchanged, also when
\* a worldList changed while the popup was open.
C29_RenameReplacesOnlyOldName ==
    RenameConfirmed =>
        /\ Len(settings.presetList) = Len(pre.settings.presetList)
        /\ \A i \in 1..Len(settings.presetList) :
              IF i \in log.arg.dialog.presets
              THEN /\ OnlyOldNameReplaced(pre.settings.presetList[i].worldList,
                                          settings.presetList[i].worldList,
                                          log.arg.dialog)
                   /\ settings.presetList[i].name = pre.settings.presetList[i].name
              ELSE settings.presetList[i] = pre.settings.presetList[i]

\* The same for popups answered while every listed preset still holds the
\* old name.
C29_HoldsWhenUnmodified ==
    RenameConfirmed /\ ListedStillIncludeOldName =>
        \A i \in 1..Len(settings.presetList) :
            IF i \in log.arg.dialog.presets
            THEN OnlyOldNameReplaced(pre.settings.presetList[i].worldList,
                                     settings.presetList[i].worldList, log.arg.dialog)
            ELSE settings.presetList[i] = pre.settings.presetList[i]

\* A popup confirmed after the worldList of a listed preset lost the old
\* name to an earlier confirmation.
C29_Witness ==
    /\ RenameConfirmed
    /\ ~ListedStillIncludeOldName

-----------------------------------------------------------------------------
(* C30: the observer's baseline follows the selector's list.                *)

ObserverRan == log.op \in {"booksNotified", "renameAnswered"}

\* C30: once a notification is handled (no callback is left at its popup),
\* bookNames equals the list the selector showed at the most recent
\* notification, whether the callback was throttled, proposed a rename or
\* overlapped another one.
C30_BaselineIsLatestList ==
    ObserverRan /\ dialogs = <<>> => bookNames = log.arg.observed

\* A callback that got past its throttle and showed no popup stored the list.
C30_HoldsForPlainCallback ==
    log.op = "booksNotified" /\ ~log.arg.throttled /\ ~log.arg.proposed =>
        bookNames = log.arg.observed

\* A throttled callback has returned.
C30_WitnessThrottled ==
    /\ log.op = "booksNotified"
    /\ log.arg.throttled
    /\ dialogs = <<>>
    /\ bookNames # log.arg.observed

\* The last popup was answered after a later notification was handled.
C30_Witness ==
    /\ log.op = "renameAnswered"
    /\ dialogs = <<>>
    /\ log.arg.dialog.newNames # log.arg.observed

-----------------------------------------------------------------------------
(* C31: every mutation of the Settings object is followed by a save request. *)

\* The file of an import whose importSinglePreset call changed the Settings
\* object.
ImportMutated(k) == log.arg[k].after.settings # log.arg[k].before.settings

\* C31: an operation that mutates the Settings object requests the debounced
\* save before it finishes: every importSinglePreset call that changed the
\* settings called saveSettingsDebounced(), and so did every handler that only
\* calls activatePreset.
C31_MutationsAreSaved ==
    /\ log.op = "import" =>
          \A k \in 1..Len(log.arg) : ImportMutated(k) => log.arg[k].saved
    /\ log.op \in {"select", "wipreset", "restore", "checkAndApplyLocks"} =>
          (settings # pre.settings => log.act.saved)

\* The same for the handlers that only call activatePreset.
C31_ActivationsAreSaved ==
    log.op \in {"select", "wipreset", "restore", "checkAndApplyLocks"} =>
        (settings # pre.settings => log.act.saved)

\* An import overwrote the book list of a preset that is not the active one
\* and requested no save.
C31_Witness ==
    /\ log.op = "import"
    /\ \E k \in 1..Len(log.arg) :
          /\ log.arg[k].kind = "overwrite"
          /\ ImportMutated(k)
          /\ ~log.arg[k].saved
          /\ ~log.arg[k].act.activated

-----------------------------------------------------------------------------
(* C32: hasAnyLocks() agrees with getLockForContext().                      *)

WithPrecedence(W, flag) == [W EXCEPT !.settings.preferChatOverCharacterLocks = flag]

\* C32: hasAnyLocks() is true exactly when the gated chat lock or the gated
\* context lock is non-null, whatever preferChatOverCharacterLocks is, and
\* exactly when getLockForContext() is non-null.
C32_HasAnyLocksIffLockResolved ==
    /\ hasAnyLocks(World, getCurrentContext) <=>
          (GatedChatLock(World) # NULL \/ GatedContextLock(World, getCurrentContext) # NULL)
    /\ \A flag \in BOOLEAN :
          hasAnyLocks(WithPrecedence(World, flag), getCurrentContext)
              <=> hasAnyLocks(World, getCurrentContext)
    /\ hasAnyLocks(World, getCurrentContext) <=>
          getLockForContext(World, getCurrentContext) # NULL

\* A stored chat lock is hidden by its flag while the character lock
\* resolves, after a handler ran.
C32_Witness ==
    /\ log.op # "init"
    /\ ~settings.enableChatLocks
    /\ getChatLock(World) # NULL
    /\ hasAnyLocks(World, getCurrentContext)
    /\ ~getCurrentContext.isGroupChat

\* Every stored lock of the context is hidden by its flag.
C32_WitnessAllHidden ==
    /\ log.op # "init"
    /\ hasAnyLocks_M(World, getCurrentContext)
    /\ ~hasAnyLocks(World, getCurrentContext)

-----------------------------------------------------------------------------
(* C33: group identity and character identity exclude each other.           *)

ExclusiveIdentity(context) ==
    IF context.isGroupChat THEN context.characterName = NULL
    ELSE context.groupId = NULL

\* The handlers that read or write locks for the resolved context: the
\* activations, the lock dialog and the entry check.
ContextBound ==
    log.op \in {"activate", "select", "wipreset", "restore", "lockSettings",
                "checkAndApplyLocks"}

\* The resolved lock and the lock indicator do not depend on any lock of the
\* other kind.
OtherKindNotRead(W, context) ==
    IF context.isGroupChat
    THEN \A c \in Chars, v \in LockVals :
            /\ getLockForContext(setCharacterLock(W, c, v), context)
                  = getLockForContext(W, context)
            /\ hasAnyLocks(setCharacterLock(W, c, v), context)
                  <=> hasAnyLocks(W, context)
    ELSE \A g \in Groups, v \in LockVals :
            /\ getLockForContext(setGroupLock(W, g, v), context)
                  = getLockForContext(W, context)
            /\ hasAnyLocks(setGroupLock(W, g, v), context)
                  <=> hasAnyLocks(W, context)

\* updateLocksForContext leaves the locks of the other kind as they are.
OtherKindNotRewritten(W, context) ==
    \A n \in PresetNames :
        IF context.isGroupChat
        THEN updateLocksForContext(W, context, n).settings.characterLocks
                = W.settings.characterLocks
        ELSE updateLocksForContext(W, context, n).settings.groupLocks
                = W.settings.groupLocks

\* C33: in every resolved context, isGroupChat implies characterName is null
\* and no character lock is read, applied or rewritten for the context;
\* otherwise groupId is null and no group lock is read, applied or rewritten.
C33_IdentitiesAreExclusive ==
    /\ ExclusiveIdentity(getCurrentContext)
    /\ ExclusiveIdentity(pre.context)
    /\ OtherKindNotRead(World, getCurrentContext)
    /\ OtherKindNotRewritten(World, getCurrentContext)
    /\ ContextBound =>
          IF pre.context.isGroupChat
          THEN settings.characterLocks = pre.settings.characterLocks
          ELSE settings.groupLocks = pre.settings.groupLocks

\* In a group chat with a character lock stored, the prompt was accepted and
\* the group lock was rewritten.
C33_Witness ==
    /\ log.op \in {"activate", "select", "wipreset", "restore"}
    /\ log.act.prompted /\ log.act.answer
    /\ pre.context.isGroupChat
    /\ \E c \in Chars : settings.characterLocks[c] # NULL
    /\ settings.groupLocks # pre.settings.groupLocks

\* In a character chat with a group lock stored, the lock dialog rewrote the
\* character lock.
C33_WitnessCharacter ==
    /\ log.op = "lockSettings"
    /\ ~pre.context.isGroupChat
    /\ \E g \in Groups : settings.groupLocks[g] # NULL
    /\ settings.characterLocks # pre.settings.characterLocks

-----------------------------------------------------------------------------
(* The context cache over time.                                            *)

\* How much time passes between two steps.
Delays == {50, 100}

TimePasses(d) ==
    /\ d \in Delays
    /\ now + d <= MaxTime
    /\ now' = now + d
    /\ UNCHANGED <<settings, chat_metadata, world_info, engine, host, cachedContext,
                   pendingChecks, checkPc, attempts, ops, log, pre, bookNames,
                   lastRenameCheck, calls, dialogs, cacheTimestamp>>

\* The host switches to another character, chat or group; the event that
\* announces it is emitted later.
HostMoves(h) ==
    /\ h \in HostStates
    /\ h # host
    /\ host' = h
    /\ UNCHANGED <<settings, chat_metadata, world_info, engine, cachedContext,
                   pendingChecks, checkPc, attempts, ops, log, pre, bookNames,
                   lastRenameCheck, calls, dialogs, cacheTimestamp, now>>

\* The getCurrentContext call before this one, if nothing but time and the
\* host's own changes came in between.
PreviousCall ==
    IF log.op = "getCurrentContext"
    THEN [some |-> TRUE, at |-> log.arg.at, returned |-> log.arg.returned,
          computedAt |-> log.arg.computedAt]
    ELSE [some |-> FALSE, at |-> 0, returned |-> NoCache, computedAt |-> 0]

\* showLockSettings dismissed: getCurrentContext() and nothing written.
ResolveContext ==
    /\ Finish(World,
              Log("getCurrentContext",
                  [at |-> now, returned |-> getCurrentContext,
                   recomputed |-> ~isCacheValid,
                   computedAt |-> IF isCacheValid THEN cacheTimestamp ELSE now,
                   prev |-> PreviousCall,
                   afterEvent |-> log.op = "contextEvent",
                   eventAt |-> pre.now],
                  NoAct, FALSE, FALSE), TRUE)
    /\ UNCHANGED <<host, pendingChecks, checkPc, attempts, ops, bookNames,
                   lastRenameCheck, calls, dialogs, now>>

NextCache ==
    \/ \E d \in Delays : TimePasses(d)
    \/ \E h \in HostStates : HostMoves(h)
    \/ ResolveContext
    \/ NextEntry

\* A character chat whose chat, character and group locks all name a preset.
InitCache ==
    /\ InitLive
    /\ host = HostC1
    /\ getChatLock(World) = "A"

SpecCache == InitCache /\ [][NextCache]_vars

-----------------------------------------------------------------------------
(* C34: the context cache.                                                 *)

ResolvedAgain == log.op = "getCurrentContext" /\ log.arg.prev.some

\* Two calls less than CACHE_DURATION_MS apart, nothing clearing the cache in
\* between, return the same snapshot.
C34_CallsCloseInTimeAgree ==
    ResolvedAgain /\ log.arg.at - log.arg.prev.at < CACHE_DURATION_MS
        => log.arg.returned = log.arg.prev.returned

\* After an event that clears the cache, the next call returns a context
\* computed from host state no earlier than the event.
AfterEventRecomputed ==
    /\ log.op = "getCurrentContext" /\ log.arg.afterEvent =>
          /\ log.arg.computedAt >= log.arg.eventAt
          /\ log.arg.recomputed => log.arg.returned = ComputeContext(pre.host)
    /\ log.op = "contextEvent" /\ cachedContext # NoCache =>
          cacheTimestamp >= pre.now
    /\ log.op = "getCurrentContext" /\ log.arg.recomputed =>
          log.arg.returned = ComputeContext(pre.host)

\* C34: two getCurrentContext calls made less than CACHE_DURATION_MS after the
\* cache was filled, with no cache clearing in between, return the same
\* snapshot; after a character-changed, chat-changed or chat-loaded event the
\* next call recomputes from host state and never returns a context computed
\* before the event.
C34_CallsInOneWindowAgree ==
    /\ ResolvedAgain /\ log.arg.at - log.arg.prev.computedAt < CACHE_DURATION_MS
          => log.arg.returned = log.arg.prev.returned
    /\ AfterEventRecomputed

\* The host moved between two calls of one validity window and both returned
\* the snapshot taken before the move.
C34_Witness ==
    /\ ResolvedAgain
    /\ log.arg.at - log.arg.prev.computedAt < CACHE_DURATION_MS
    /\ log.arg.at > log.arg.prev.at
    /\ log.arg.returned # ComputeContext(host)

\* The first call after an event that left the cache empty.
C34_WitnessAfterEvent ==
    /\ log.op = "getCurrentContext"
    /\ log.arg.afterEvent
    /\ log.arg.recomputed
    /\ log.arg.eventAt > 0
    /\ pre.host # HostNotReady

-----------------------------------------------------------------------------
(* C35: lookups by a name that two presets carry.                           *)

IndicesOf(list, name) == {i \in 1..Len(list) : list[i].name = name}

\* Index of the preset added last under `name`.
LastIndexOf(list, name) ==
    CHOOSE i \in IndicesOf(list, name) : \A j \in IndicesOf(list, name) : j <= i

CreatedDuplicate ==
    /\ log.op \in {"create", "update"}
    /\ log.arg # NULL
    /\ Cardinality(IndicesOf(settings.presetList, log.arg)) >= 2

\* C35: with two presets of one name in the registry, the selection (which
\* Update edits), lock resolution and activation by name all resolve that name
\* to the preset added last.
C35_LastWriteWins ==
    CreatedDuplicate =>
        /\ settings.presetName = log.arg
        /\ SelectedIndex(settings) = LastIndexOf(settings.presetList, log.arg)
        /\ FindByName(settings.presetList, log.arg)
              = LastIndexOf(settings.presetList, log.arg)
        /\ FindIgnoreCase(settings.presetList, log.arg)
              = LastIndexOf(settings.presetList, log.arg)

\* A preset was created under the name of an existing one, which every lookup
\* resolves to the older preset.
C35_Witness ==
    /\ CreatedDuplicate
    /\ settings.presetName = log.arg
    /\ SelectedIndex(settings) = 1
    /\ Len(settings.presetList) = 2

-----------------------------------------------------------------------------
(* C36: the superseded brute-force activation against the delta activation. *)

\* The preset the last handler activated, as the registry held it when the
\* handler started.
ActivatedPreset ==
    PresetAt(pre.settings.presetList, FindByName(pre.settings.presetList, log.act.target))

\* The last handler called activatePreset on a preset of a registry with
\* unique names, or on no preset.
ActivatedFromRegistry ==
    /\ log.op \in {"activate", "select", "wipreset", "restore", "checkAndApplyLocks"}
    /\ log.act.activated
    /\ \A n \in PresetNames : Cardinality(IndicesOf(pre.settings.presetList, n)) <= 1
    /\ log.act.target = NULL \/ FindByName(pre.settings.presetList, log.act.target) # 0

Delta(failing) ==
    activatePreset(PreWorld, pre.context, ActivatedPreset, log.act.skip,
                   log.act.answer, failing)

BruteForce(failing) ==
    activatePresetBruteForce(PreWorld, pre.context, ActivatedPreset, log.act.skip,
                             log.act.answer, failing)

\* Same live book set, same presetName, same locks, same prompt.
SameOutcome(d, b) ==
    /\ d.W.world_info = b.W.world_info
    /\ d.W.settings.presetName = b.W.settings.presetName
    /\ d.W.settings.characterLocks = b.W.settings.characterLocks
    /\ d.W.settings.groupLocks = b.W.settings.groupLocks
    /\ d.W.chat_metadata = b.W.chat_metadata
    /\ d.prompted = b.prompted

\* Every book request either variant issues for a named book takes effect.
RequestsTakeEffect(d, b, failing) ==
    failing \cap (d.unload \cup d.load \cup b.load) = {}

C36_WitnessFailing ==
    /\ ActivatedFromRegistry
    /\ \E f \in FailSets : \E b \in f :
          /\ b \in pre.world_info \cap log.act.targetBooks
          /\ Delta(f).W.world_info # BruteForce(f).W.world_info

-----------------------------------------------------------------------------
(* C37: what activatePreset leaves alone.                                   *)

\* The handlers that do nothing but call activatePreset.
ActivationOnly ==
    /\ log.op \in {"activate", "select", "wipreset", "restore", "checkAndApplyLocks"}
    /\ log.act.activated

\* The registry, the global default and the enable / precedence flags of s
\* are those of t.
SameRegistryAndFlags(s, t) ==
    /\ s.presetList = t.presetList
    /\ s.globalDefaultPreset = t.globalDefaultPreset
    /\ s.enableCharacterLocks = t.enableCharacterLocks
    /\ s.enableChatLocks = t.enableChatLocks
    /\ s.enableGroupLocks = t.enableGroupLocks
    /\ s.preferChatOverCharacterLocks = t.preferChatOverCharacterLocks
    /\ s.showLockNotifications = t.showLockNotifications

SameLocks(V, W) ==
    /\ V.settings.characterLocks = W.settings.characterLocks
    /\ V.settings.groupLocks = W.settings.groupLocks
    /\ V.chat_metadata = W.chat_metadata

\* The presets activatePreset can be handed: those of the registry, or none.
Targets(s) == {s.presetList[i] : i \in 1..Len(s.presetList)} \cup {NoPreset}

\* C37: activatePreset never adds, removes, renames or edits a preset and
\* never changes globalDefaultPreset or the enable / precedence flags; with
\* skipLockCheck = true it shows no prompt and changes no chat, character or
\* group lock.
C37_ActivationFrame ==
    /\ ActivationOnly =>
          /\ SameRegistryAndFlags(settings, pre.settings)
          /\ log.act.skip => ~log.act.prompted /\ SameLocks(World, PreWorld)
    /\ \A p \in Targets(settings), a \in BOOLEAN :
          LET r == activatePreset(World, getCurrentContext, p, TRUE, a, {})
          IN /\ ~r.prompted
             /\ SameLocks(r.W, World)
             /\ SameRegistryAndFlags(r.W.settings, settings)

\* Restore ran in a context locked to another preset and changed the live
\* book set.
C37_Witness ==
    /\ log.op = "restore"
    /\ log.act.activated /\ log.act.skip
    /\ hasAnyLocks(PreWorld, pre.context)
    /\ getLockForContext(PreWorld, pre.context) # log.act.target
    /\ world_info # pre.world_info
    /\ settings.globalDefaultPreset # NULL

-----------------------------------------------------------------------------
(* C38: what a confirmed delete removes.                                    *)

DeleteConfirmed == log.op = "delete" /\ log.act.activated

\* The registry without the first preset that `name` names; the registry
\* itself when `name` names none.
WithoutNamed(list, name) ==
    IF FindByName(list, name) = 0 THEN list
    ELSE RemoveAt(list, FindByName(list, name))

\* C38: a confirmed delete removes only the preset presetName names; if
\* presetName is non-empty but names no preset, no preset is removed.
C38_DeleteRemovesOnlyNamed ==
    DeleteConfirmed =>
        settings.presetList = WithoutNamed(pre.settings.presetList, log.arg)

\* A delete was confirmed while presetName named no preset of a non-empty
\* registry.
C38_Witness ==
    /\ DeleteConfirmed
    /\ log.arg # NULL
    /\ FindByName(pre.settings.presetList, log.arg) = 0
    /\ Len(pre.settings.presetList) > 0

-----------------------------------------------------------------------------
(* C39: the locks an accepted conflict prompt rewrites.                     *)

\* The last step was the answer to a conflict prompt, and the user accepted.
PromptAccepted ==
    /\ log.op = "activate"
    /\ "answered" \in DOMAIN log.arg
    /\ log.arg.accepted

\* Every lock outside `context` is what it was before the step.
LocksOutsideUnchanged(context) ==
    /\ \A c \in Chars : c # context.characterName =>
          settings.characterLocks[c] = pre.settings.characterLocks[c]
    /\ \A g \in Groups : g # context.groupId =>
          settings.groupLocks[g] = pre.settings.groupLocks[g]
    /\ \A ch \in Chats \cup {NULL} : ch # context.chatId =>
          chat_metadata[ch] = pre.chat_metadata[ch]

\* C39: an accepted conflict prompt rewrites only locks of the context whose
\* lock caused the prompt; after a character-changed or chat-changed event
\* while the prompt was open, no lock of the newly entered chat, character or
\* group is created, removed or overwritten.
C39_OnlyPromptingContextRewritten ==
    PromptAccepted => LocksOutsideUnchanged(log.arg.answered)

\* The prompt was accepted in another context than the one it was shown in,
\* and a lock changed.
C39_Witness ==
    /\ PromptAccepted
    /\ pre.context # log.arg.answered
    /\ \/ settings.characterLocks # pre.settings.characterLocks
       \/ settings.groupLocks # pre.settings.groupLocks
       \/ chat_metadata # pre.chat_metadata

-----------------------------------------------------------------------------
(* C40: the locks merged by an import under a new name.                     *)

\* The k-th file of the import was pushed as a new preset under a name typed
\* because data.name collided with an existing preset.
ImportedUnderNewName(k) ==
    /\ log.arg[k].kind = "new"
    /\ log.arg[k].name # log.arg[k].file.name

\* The lock entries the k-th file's import wrote.
MergedCharacters(k) ==
    {c \in Chars : /\ log.arg[k].file.characterLocks[c] # NULL
                   /\ log.arg[k].after.settings.characterLocks[c]
                         # log.arg[k].before.settings.characterLocks[c]}

MergedGroups(k) ==
    {g \in Groups : /\ log.arg[k].file.groupLocks[g] # NULL
                    /\ log.arg[k].after.settings.groupLocks[g]
                          # log.arg[k].before.settings.groupLocks[g]}

\* C40: when a preset is imported under a new name chosen because of a
\* collision and the lock offers are accepted, every merged lock entry refers
\* to the imported preset's final name, the name adopted as global default.
C40_MergedLocksNameImportedPreset ==
    log.op = "import" =>
        \A k \in 1..Len(log.arg) :
            ImportedUnderNewName(k) =>
                /\ \A c \in MergedCharacters(k) :
                      log.arg[k].after.settings.characterLocks[c] = log.arg[k].name
                /\ \A g \in MergedGroups(k) :
                      log.arg[k].after.settings.groupLocks[g] = log.arg[k].name

\* A file exported as global default with a character lock was imported
\* under a new name, its lock and default offers accepted.
C40_Witness ==
    /\ log.op = "import"
    /\ \E k \in 1..Len(log.arg) :
          /\ ImportedUnderNewName(k)
          /\ MergedCharacters(k) # {}
          /\ log.arg[k].file.isGlobalDefault
          /\ log.arg[k].after.settings.globalDefaultPreset = log.arg[k].name
          /\ FindByName(log.arg[k].after.settings.presetList, log.arg[k].file.name) # 0

====
